---- MODULE Spec2Model ----
(***************************************************************************)
(* Model of the SSH tunnel engine of ssh_tunnel.py: the SshTunnelManager   *)
(* life cycle (connect / disconnect / monitor thread), the two local       *)
(* listeners and the SSH clients it owns (Spec, FairSpec); connect() with  *)
(* its arguments, from the credential checks to the message it raises      *)
(* (ArgsSpec); a Socks5Server with one client handler, from accept to the  *)
(* end of its relay, while disconnect() stops it (SocksSpec).              *)
(*                                                                         *)
(* Every call of connect() builds fresh objects (paramiko.SSHClient,       *)
(* Socks5Server, HttpProxyServer).  The objects built by the g-th call are *)
(* indexed by g; a manager field holds 0 for None or the index of the      *)
(* object it references.                                                   *)
(***************************************************************************)
EXTENDS Naturals, Integers, Sequences, FiniteSets, TLC

\* number of connect() calls explored
MaxConnects == 2

Gens == 1..MaxConnects
None == 0

VARIABLES
    \* ---- SshTunnelManager fields (src/ssh_tunnel.py:182-193)
    ssh_client,       \* self.ssh_client
    jump_client,      \* self.jump_client
    _jump_channel,    \* self._jump_channel
    socks_server,     \* self.socks_server
    http_proxy,       \* self.http_proxy
    _connected,       \* self._connected
    \* ---- the objects built by each connect() call
    sshSt,            \* target paramiko.SSHClient: "none" | "open" | "lost" | "closed"
    jumpSt,           \* jump paramiko.SSHClient:   "none" | "open" | "lost" | "closed"
    jchSt,            \* jump direct-tcpip channel: "none" | "open" | "closed"
    socksSt,          \* Socks5Server socket: "none" | "created" | "bound" | "closed"
    httpSt,           \* HttpProxyServer socket: "none" | "created" | "bound" | "closed"
    use_jump,         \* the use_jump argument of each call
    \* ---- the thread that calls connect() / disconnect()
    gen,              \* number of connect() calls made so far
    upc,              \* its position
    uop,              \* the call in progress: "none" | "connect" | "disconnect"
    \* ---- monitor threads, one per _start_monitor()
    mpc,              \* position of each monitor thread
    mtransport,       \* its local transport / jump_transport
    \* ---- what the sinks have observed
    status,           \* last kind delivered to on_status_changed
    lastNotify,       \* <<previous kind, kind, notifier>> of the last delivery
    emitted,          \* the call in progress has invoked a sink
    prevOp,           \* the last call that returned: "none" | "disconnect" |
                      \* "connect_ok" | "connect_raised" (a setup step failed) |
                      \* "connect_rejected" (the credential checks failed)
    established,      \* calls that reached "connected"
    \* ---- one connect() call followed with its arguments
    fs,               \* the key files on disk, by path
    args,             \* the arguments of the call
    loc,              \* its locals jump_username, jump_password, jump_key_path,
                      \* jump_key_passphrase (reassigned by the fallbacks)
    apc,              \* its position
    calls,            \* the _connect_ssh(...) invocations made so far
    exc,              \* the exception in flight or raised: [cls, msg]
    authfail,         \* the hop and mode of the login that the server rejected
    began,            \* the call went past its credential checks
    \* ---- one Socks5Server and one of its client handlers
    running,          \* Socks5Server.running
    server_socket,    \* Socks5Server.server_socket: "listening" | "closed"
    transport,        \* Socks5Server.transport: "active" | "closed"
    _use_c_engine,    \* Socks5Server._use_c_engine
    accpc,            \* position of the accept thread
    dpc,              \* position of disconnect() between stop() and close()
    hpc,              \* position of the handler thread
    stream,           \* the bytes its client sends
    inbuf,            \* those not yet received
    client,           \* the client socket: "open" | "closed"
    chan,             \* the handler's channel: "none" | "open" | "closed"
    crelay,           \* the C engine relays the handler's pair
    trace,            \* what the handler has done: sends, open_channel, relay
    \* ---- one SOCKS5 client whose bytes arrive in pieces, and its handler
    conn,             \* the greeting and the request the client writes
    wire,             \* bytes the client has written that have not arrived yet
    arrived,          \* bytes in the client socket's receive buffer
    spc,              \* position of the handler
    num_methods,      \* its local num_methods
    addr_type,        \* its local addr_type
    addr_len,         \* its local addr_len
    dest,             \* its locals dest_addr, port_bytes: <<address bytes, port bytes>>
    replies,          \* what it has sent to the client before the relay
    origin,           \* bytes the remote end has written, not yet read by the relay
    up,               \* bytes the relay has delivered to the remote end
    down,             \* bytes the relay has delivered to the client
    \* ---- one HttpProxyServer and one of its client handlers
    hreq,             \* the bytes its client writes
    hwire,            \* those the handler has not received yet
    initial_data,     \* the handler's data / initial_data
    ppc,              \* position of the handler
    rkind,            \* the request is a "connect" or plain "http"
    rhost,            \* its local host
    rport,            \* its local port
    rpath,            \* its local path
    remote,           \* the upstream socket: "none" | "open" | "closed"
    hclient,          \* the client socket: "open" | "closed"
    horigin,          \* bytes the upstream socket will deliver to the relay
    dials,            \* the _connect_via_socks5 calls made: [host, port, ok]
                      \* and what the SOCKS5 server did: [connected, method, reply]
    answers,          \* the responses the proxy itself sent to the client
    toRemote,         \* bytes sent on the upstream socket
    toClient,         \* bytes relayed to the client
    _running,         \* HttpProxyServer._running
    _bytes_up,        \* HttpProxyServer._bytes_up
    _bytes_down,      \* HttpProxyServer._bytes_down
    _active,          \* HttpProxyServer._active
    _total,           \* HttpProxyServer._total
    pexc,             \* the exception in flight in the handler, or "none"
    \* ---- one call of HttpProxyServer._parse_host_port
    parse_in,         \* its argument addr
    parse_default,    \* its argument default_port
    parse_out,        \* what it returned: <<host, port>>, <<>> before it returns
    \* ---- the handler threads of one HttpProxyServer and a get_stats() caller
    threads,          \* position of each handler thread
    _lock,            \* HttpProxyServer._lock: the thread that holds it, 0 when free
    loaded,           \* the counter value each thread has loaded for its += / -=
    gpc,              \* position of the get_stats() caller
    seen              \* what get_stats() returned last

fields == <<ssh_client, jump_client, _jump_channel, socks_server, http_proxy, _connected>>
objs   == <<sshSt, jumpSt, jchSt, socksSt, httpSt>>
user   == <<gen, upc, uop, use_jump>>
mon    == <<mpc, mtransport>>
sinks  == <<status, lastNotify, emitted>>
hist   == <<prevOp, established>>
\* the manager, its objects and its threads
manager == <<fields, objs, user, mon, sinks, hist>>
\* the connect() call followed with its arguments
argsv  == <<fs, args, loc, apc, calls, exc, authfail, began>>
\* the Socks5Server followed with one client
socksv == <<running, server_socket, transport, _use_c_engine, accpc, dpc,
            hpc, stream, inbuf, client, chan, crelay, trace>>
\* the SOCKS5 client whose bytes arrive in pieces
streamv == <<conn, wire, arrived, spc, num_methods, addr_type, addr_len, dest, replies,
             origin, up, down>>
\* the HttpProxyServer followed with one client
httpv  == <<hreq, hwire, initial_data, ppc, rkind, rhost, rport, rpath, remote,
            hclient, horigin, dials, answers, toRemote, toClient, _running,
            _bytes_up, _bytes_down, _active, _total, pexc>>
\* the _parse_host_port call
parsev == <<parse_in, parse_default, parse_out>>
\* the handler threads and the get_stats() caller
statsv == <<threads, _lock, loaded, gpc, seen>>
\* the parts followed one at a time by the specifications further down
extra  == <<streamv, httpv, parsev, statsv>>
\* what each of them leaves alone
notStream == <<httpv, parsev, statsv>>
notHttp   == <<streamv, parsev, statsv>>
notParse  == <<streamv, httpv, statsv>>
notStats  == <<streamv, parsev>>
\* what the manager's life cycle leaves alone
other  == <<argsv, socksv, extra>>
vars   == <<manager, other>>

\* paramiko.Transport.is_active() of the client built by call g
\* ("lost": the client was not closed but the network dropped its transport)
TargetActive(g) == sshSt[g] = "open"
JumpActive(g)   == jumpSt[g] = "open"

\* SshTunnelManager.is_connected
is_connected == _connected /\ ssh_client # None

\* self._notify_status(kind, ...) issued by `by`
_notify_status(kind, by) ==
    /\ status' = kind
    /\ lastNotify' = <<status, kind, by>>

\* SshTunnelManager.__init__
ManagerInit ==
    /\ ssh_client = None /\ jump_client = None /\ _jump_channel = None
    /\ socks_server = None /\ http_proxy = None /\ _connected = FALSE
    /\ sshSt = [g \in Gens |-> "none"]
    /\ jumpSt = [g \in Gens |-> "none"]
    /\ jchSt = [g \in Gens |-> "none"]
    /\ socksSt = [g \in Gens |-> "none"]
    /\ httpSt = [g \in Gens |-> "none"]
    /\ use_jump = [g \in Gens |-> FALSE]
    /\ gen = 0 /\ upc = "idle" /\ uop = "none"
    /\ mpc = [g \in Gens |-> "none"]
    /\ mtransport = [g \in Gens |-> None]
    /\ status = "disconnected"
    /\ lastNotify = <<"disconnected", "disconnected", "init">>
    /\ emitted = FALSE
    /\ prevOp = "none"
    /\ established = {}

\* no connect() call is followed with its arguments
ArgsOff ==
    /\ fs = <<>> /\ args = <<>> /\ loc = <<>> /\ apc = "off"
    /\ calls = <<>> /\ exc = <<>> /\ authfail = <<>> /\ began = FALSE

\* no Socks5Server is followed
SocksOff ==
    /\ running = FALSE /\ server_socket = "none" /\ transport = "none"
    /\ _use_c_engine = FALSE /\ accpc = "off" /\ dpc = "off"
    /\ hpc = "off" /\ stream = <<>> /\ inbuf = <<>>
    /\ client = "none" /\ chan = "none" /\ crelay = FALSE /\ trace = <<>>

\* no client is followed byte by byte
StreamOff ==
    /\ conn = <<>> /\ wire = <<>> /\ arrived = <<>> /\ spc = "off" /\ num_methods = 0
    /\ addr_type = 0 /\ addr_len = 0 /\ dest = <<>> /\ replies = <<>>
    /\ origin = <<>> /\ up = <<>> /\ down = <<>>

\* no client of the HTTP proxy is followed
HttpIdle ==
    /\ hreq = <<>> /\ hwire = <<>> /\ initial_data = <<>> /\ ppc = "off"
    /\ rkind = "none" /\ rhost = <<>> /\ rport = 0 /\ rpath = <<>>
    /\ remote = "none" /\ hclient = "none" /\ horigin = <<>>
    /\ dials = <<>> /\ answers = <<>> /\ toRemote = <<>> /\ toClient = <<>>
    /\ _bytes_up = 0 /\ _bytes_down = 0 /\ _active = 0 /\ _total = 0
    /\ pexc = "none"
HttpOff == HttpIdle /\ _running = FALSE

\* no _parse_host_port call is followed
ParseOff == parse_in = <<>> /\ parse_default = 0 /\ parse_out = <<>>

\* no handler thread is followed
StatsOff ==
    /\ threads = <<>> /\ _lock = 0 /\ loaded = <<>> /\ gpc = "off" /\ seen = <<>>

\* nothing but the manager is followed
ExtraOff == StreamOff /\ HttpOff /\ ParseOff /\ StatsOff

Init ==
    /\ ManagerInit
    /\ ArgsOff
    /\ SocksOff
    /\ ExtraOff

----------------------------------------------------------------------------
\* The caller invokes connect(...): a fresh call, with or without a jump host.
ConnectCall ==
    /\ upc = "idle" /\ gen < MaxConnects
    /\ \E j \in BOOLEAN :
         use_jump' = [use_jump EXCEPT ![gen + 1] = j]
    /\ gen' = gen + 1
    /\ uop' = "connect"
    /\ upc' = "c_precheck"
    /\ emitted' = FALSE
    /\ UNCHANGED <<other, fields, objs, mon, status, lastNotify, hist>>

\* The credential checks before anything is attempted: a bad key
\* configuration raises into the handler at the end of connect().
Precheck ==
    /\ upc = "c_precheck"
    /\ \E bad \in BOOLEAN :
         upc' = IF bad THEN "c_except_cfg" ELSE "c_connecting"
    /\ UNCHANGED <<other, fields, objs, gen, uop, use_jump, mon, sinks, hist>>

\* first position of the SSH phase of connect()
SshPhase(j) == IF j THEN "c_jump_connect" ELSE "c_target"

\* self.disconnect(): connect() tears the previous tunnel down first
AfterConnecting_noDisconnect == SshPhase(use_jump[gen])
AfterConnecting == "d_flag"

\* self._log(...); self._notify_status("connecting", ...)
NotifyConnecting ==
    /\ upc = "c_connecting"
    /\ _notify_status("connecting", "connect")
    /\ emitted' = TRUE
    /\ upc' = AfterConnecting
    /\ UNCHANGED <<other, fields, objs, gen, uop, use_jump, mon, hist>>

----------------------------------------------------------------------------
\* disconnect(), called by the user or by connect() (self.disconnect())

\* The statement at pc has something to do: the `if self.<field>:` blocks of
\* disconnect() are skipped when the field is None.  Only the calling thread
\* writes these fields, so the skipped tests are not steps of their own.
Pending(pc) ==
    CASE pc = "d_http"  -> http_proxy # None
      [] pc = "d_socks" -> socks_server # None
      [] pc = "d_ssh"   -> ssh_client # None
      [] pc = "d_jch"   -> _jump_channel # None
      [] pc = "d_jump"  -> jump_client # None
      [] OTHER          -> TRUE

\* first position from the i-th on in `order` that has something to do
RECURSIVE FirstPending(_, _)
FirstPending(order, i) ==
    IF i >= Len(order) \/ Pending(order[i])
      THEN order[i]
      ELSE FirstPending(order, i + 1)

\* position that follows pc in the statement order `order`
NextIn(order, pc) ==
    LET i == CHOOSE k \in 1..Len(order) : order[k] = pc
    IN  FirstPending(order, i + 1)

\* the order of the statements of disconnect()
TeardownOrder_socksFirst ==
    <<"d_flag", "d_socks", "d_http", "d_ssh", "d_jch", "d_jump", "d_notify">>
TeardownOrder ==
    <<"d_flag", "d_http", "d_socks", "d_ssh", "d_jch", "d_jump", "d_notify">>

\* Socks5Server.stop() / HttpProxyServer.stop(): clear the running flag,
\* close the listening socket, join the accept thread
StopListener_leaveOpen(st) == st
StopListener(st) == IF st \in {"created", "bound"} THEN "closed" ELSE st

\* paramiko.SSHClient.close() / Channel.close()
CloseClient(st) == IF st \in {"open", "lost"} THEN "closed" ELSE st

\* self._connected = False
DisconnectFlag ==
    /\ upc = "d_flag"
    /\ _connected' = FALSE
    /\ upc' = NextIn(TeardownOrder, "d_flag")
    /\ UNCHANGED <<other, ssh_client, jump_client, _jump_channel, socks_server, http_proxy,
                   objs, gen, uop, use_jump, mon, sinks, hist>>

\* if self.http_proxy: self.http_proxy.stop(); self.http_proxy = None
DisconnectHttp ==
    /\ upc = "d_http"
    /\ http_proxy # None
    /\ httpSt' = [httpSt EXCEPT ![http_proxy] = StopListener(@)]
    /\ http_proxy' = None
    /\ upc' = NextIn(TeardownOrder, "d_http")
    /\ UNCHANGED <<other, ssh_client, jump_client, _jump_channel, socks_server, _connected,
                   sshSt, jumpSt, jchSt, socksSt, gen, uop, use_jump, mon, sinks, hist>>

\* if self.socks_server: self.socks_server.stop(); self.socks_server = None
DisconnectSocks ==
    /\ upc = "d_socks"
    /\ socks_server # None
    /\ socksSt' = [socksSt EXCEPT ![socks_server] = StopListener(@)]
    /\ socks_server' = None
    /\ upc' = NextIn(TeardownOrder, "d_socks")
    /\ UNCHANGED <<other, ssh_client, jump_client, _jump_channel, http_proxy, _connected,
                   sshSt, jumpSt, jchSt, httpSt, gen, uop, use_jump, mon, sinks, hist>>

\* if self.ssh_client: self.ssh_client.close(); self.ssh_client = None
DisconnectSsh ==
    /\ upc = "d_ssh"
    /\ ssh_client # None
    /\ sshSt' = [sshSt EXCEPT ![ssh_client] = CloseClient(@)]
    /\ ssh_client' = None
    /\ upc' = NextIn(TeardownOrder, "d_ssh")
    /\ UNCHANGED <<other, jump_client, _jump_channel, socks_server, http_proxy, _connected,
                   jumpSt, jchSt, socksSt, httpSt, gen, uop, use_jump, mon, sinks, hist>>

\* if self._jump_channel: self._jump_channel.close(); self._jump_channel = None
DisconnectJumpChannel ==
    /\ upc = "d_jch"
    /\ _jump_channel # None
    /\ jchSt' = [jchSt EXCEPT ![_jump_channel] = CloseClient(@)]
    /\ _jump_channel' = None
    /\ upc' = NextIn(TeardownOrder, "d_jch")
    /\ UNCHANGED <<other, ssh_client, jump_client, socks_server, http_proxy, _connected,
                   sshSt, jumpSt, socksSt, httpSt, gen, uop, use_jump, mon, sinks, hist>>

\* if self.jump_client: self.jump_client.close(); self.jump_client = None
DisconnectJump ==
    /\ upc = "d_jump"
    /\ jump_client # None
    /\ jumpSt' = [jumpSt EXCEPT ![jump_client] = CloseClient(@)]
    /\ jump_client' = None
    /\ upc' = NextIn(TeardownOrder, "d_jump")
    /\ UNCHANGED <<other, ssh_client, _jump_channel, socks_server, http_proxy, _connected,
                   sshSt, jchSt, socksSt, httpSt, gen, uop, use_jump, mon, sinks, hist>>

\* self._log("已断开连接"); self._notify_status("disconnected", "未连接");
\* then disconnect() returns, to connect() or to the user
DisconnectNotify ==
    /\ upc = "d_notify"
    /\ _notify_status("disconnected", "disconnect")
    /\ emitted' = TRUE
    /\ IF uop = "connect"
         THEN /\ upc' = SshPhase(use_jump[gen])
              /\ UNCHANGED <<uop, prevOp>>
         ELSE /\ upc' = "idle"
              /\ uop' = "none"
              /\ prevOp' = "disconnect"
    /\ UNCHANGED <<other, fields, objs, gen, use_jump, mon, established>>

\* The caller invokes disconnect().
DisconnectCall ==
    /\ upc = "idle"
    /\ uop' = "disconnect"
    /\ upc' = "d_flag"
    /\ emitted' = FALSE
    /\ UNCHANGED <<other, fields, objs, gen, use_jump, mon, status, lastNotify, hist>>

----------------------------------------------------------------------------
\* connect() after its self.disconnect(): SSH session(s), listeners, status

\* the order of the statements of connect() once the target session is up
StartupOrder_connectedEarly ==
    <<"c_transport", "c_socks", "c_connected", "c_http", "c_monitor">>
StartupOrder_httpFirst ==
    <<"c_transport", "c_http", "c_socks", "c_connected", "c_monitor">>
StartupOrder ==
    <<"c_transport", "c_socks", "c_http", "c_connected", "c_monitor">>

\* jump_client = paramiko.SSHClient(); _connect_ssh(jump_client, ...)
JumpConnect ==
    /\ upc = "c_jump_connect"
    /\ \E ok \in BOOLEAN :
         IF ok
           THEN /\ jumpSt' = [jumpSt EXCEPT ![gen] = "open"]
                /\ upc' = "c_jump_transport"
           ELSE /\ upc' = "c_except"
                /\ UNCHANGED jumpSt
    /\ UNCHANGED <<other, fields, sshSt, jchSt, socksSt, httpSt, gen, uop, use_jump,
                   mon, sinks, hist>>

\* jump_transport = jump_client.get_transport(); raise unless it is active
JumpTransportCheck ==
    /\ upc = "c_jump_transport"
    /\ upc' = IF JumpActive(gen) THEN "c_jump_channel" ELSE "c_except"
    /\ UNCHANGED <<other, fields, objs, gen, uop, use_jump, mon, sinks, hist>>

\* jump_channel = jump_transport.open_channel("direct-tcpip", (host, port), ...)
JumpOpenChannel ==
    /\ upc = "c_jump_channel"
    /\ \E ok \in BOOLEAN :
         IF ok /\ JumpActive(gen)
           THEN /\ jchSt' = [jchSt EXCEPT ![gen] = "open"]
                /\ upc' = "c_target"
           ELSE /\ upc' = "c_except"
                /\ UNCHANGED jchSt
    /\ UNCHANGED <<other, fields, sshSt, jumpSt, socksSt, httpSt, gen, uop, use_jump,
                   mon, sinks, hist>>

\* _connect_ssh(client, ...), over jump_channel when a jump is used; on
\* success with a jump: self.jump_client = jump_client;
\* self._jump_channel = jump_channel
TargetConnect ==
    /\ upc = "c_target"
    /\ \E ok \in BOOLEAN :
         IF ok /\ (use_jump[gen] => JumpActive(gen) /\ jchSt[gen] = "open")
           THEN /\ sshSt' = [sshSt EXCEPT ![gen] = "open"]
                /\ upc' = Head(StartupOrder)
                /\ IF use_jump[gen]
                     THEN jump_client' = gen /\ _jump_channel' = gen
                     ELSE UNCHANGED <<jump_client, _jump_channel>>
           ELSE /\ upc' = "c_except"
                /\ UNCHANGED <<sshSt, jump_client, _jump_channel>>
    /\ UNCHANGED <<other, ssh_client, socks_server, http_proxy, _connected,
                   jumpSt, jchSt, socksSt, httpSt, gen, uop, use_jump,
                   mon, sinks, hist>>

\* transport = client.get_transport() (never None once connect() succeeded);
\* transport.set_keepalive(30); self.ssh_client = client
SetSshClient ==
    /\ upc = "c_transport"
    /\ ssh_client' = gen
    /\ upc' = NextIn(StartupOrder, "c_transport")
    /\ UNCHANGED <<other, jump_client, _jump_channel, socks_server, http_proxy, _connected,
                   objs, gen, uop, use_jump, mon, sinks, hist>>

\* self.socks_server = Socks5Server(transport, socks_port);
\* self.socks_server.start(): bind() raises when the port is taken
StartSocks ==
    /\ upc = "c_socks"
    /\ socks_server' = gen
    /\ \E ok \in BOOLEAN :
         IF ok
           THEN /\ socksSt' = [socksSt EXCEPT ![gen] = "bound"]
                /\ upc' = NextIn(StartupOrder, "c_socks")
           ELSE /\ socksSt' = [socksSt EXCEPT ![gen] = "created"]
                /\ upc' = "c_except"
    /\ UNCHANGED <<other, ssh_client, jump_client, _jump_channel, http_proxy, _connected,
                   sshSt, jumpSt, jchSt, httpSt, gen, uop, use_jump, mon, sinks, hist>>

\* self.http_proxy = HttpProxyServer(...); self.http_proxy.start()
StartHttp ==
    /\ upc = "c_http"
    /\ http_proxy' = gen
    /\ \E ok \in BOOLEAN :
         IF ok
           THEN /\ httpSt' = [httpSt EXCEPT ![gen] = "bound"]
                /\ upc' = NextIn(StartupOrder, "c_http")
           ELSE /\ httpSt' = [httpSt EXCEPT ![gen] = "created"]
                /\ upc' = "c_except"
    /\ UNCHANGED <<other, ssh_client, jump_client, _jump_channel, socks_server, _connected,
                   sshSt, jumpSt, jchSt, socksSt, gen, uop, use_jump, mon, sinks, hist>>

\* self._connected = True; self._log(...); self._notify_status("connected", ...)
SetConnected ==
    /\ upc = "c_connected"
    /\ _connected' = TRUE
    /\ _notify_status("connected", "connect")
    /\ emitted' = TRUE
    /\ established' = established \cup {gen}
    /\ upc' = NextIn(StartupOrder, "c_connected")
    /\ UNCHANGED <<other, ssh_client, jump_client, _jump_channel, socks_server, http_proxy,
                   objs, gen, uop, use_jump, mon, prevOp>>

\* self._start_monitor(); connect() returns normally
StartMonitor ==
    /\ upc = "c_monitor"
    /\ mpc' = [mpc EXCEPT ![gen] = "sleep"]
    /\ upc' = "idle"
    /\ uop' = "none"
    /\ prevOp' = "connect_ok"
    /\ UNCHANGED <<other, fields, objs, gen, use_jump, mtransport, sinks, established>>

\* the except clauses of connect(): self._log(msg);
\* self._notify_status("disconnected", msg); raise Exception(msg)
ConnectExcept ==
    /\ upc \in {"c_except", "c_except_cfg"}
    /\ _notify_status("disconnected", "connect")
    /\ emitted' = TRUE
    /\ upc' = "idle"
    /\ uop' = "none"
    /\ prevOp' = IF upc = "c_except" THEN "connect_raised" ELSE "connect_rejected"
    /\ UNCHANGED <<other, fields, objs, gen, use_jump, mon, established>>

----------------------------------------------------------------------------
\* _monitor_loop(), run by the thread that the g-th connect() started

\* what the monitor inspects besides the target transport
MonitorChecksJump_never == FALSE
MonitorChecksJump == jump_client # None

\* while self._connected: time.sleep(10); if not self._connected: break
\* The loop test and the test after the sleep read the same flag with nothing
\* but the sleep between them; the flag is read once, when the sleep returns
\* (whenever this read finds it set, the loop test just before could too).
MonitorWake(g) ==
    /\ mpc[g] = "sleep"
    /\ mpc' = [mpc EXCEPT ![g] = IF _connected THEN "read" ELSE "done"]
    /\ UNCHANGED <<other, fields, objs, user, mtransport, sinks, hist>>

\* transport = self.ssh_client.get_transport() if self.ssh_client else None
MonitorRead(g) ==
    /\ mpc[g] = "read"
    /\ mtransport' = [mtransport EXCEPT ![g] = ssh_client]
    /\ mpc' = [mpc EXCEPT ![g] = "test"]
    /\ UNCHANGED <<other, fields, objs, user, sinks, hist>>

\* if transport is None or not transport.is_active(): ...
\* else: if self.jump_client: jump_transport = self.jump_client.get_transport()
MonitorTest(g) ==
    /\ mpc[g] = "test"
    /\ IF mtransport[g] = None \/ ~TargetActive(mtransport[g])
         THEN /\ mpc' = [mpc EXCEPT ![g] = "demote"]
              /\ mtransport' = [mtransport EXCEPT ![g] = None]
         ELSE IF MonitorChecksJump
           THEN /\ mpc' = [mpc EXCEPT ![g] = "jtest"]
                /\ mtransport' = [mtransport EXCEPT ![g] = jump_client]
           ELSE /\ mpc' = [mpc EXCEPT ![g] = "sleep"]
                /\ mtransport' = [mtransport EXCEPT ![g] = None]
    /\ UNCHANGED <<other, fields, objs, user, sinks, hist>>

\* if jump_transport is None or not jump_transport.is_active(): ...
MonitorJumpTest(g) ==
    /\ mpc[g] = "jtest"
    /\ mpc' = [mpc EXCEPT ![g] = IF JumpActive(mtransport[g]) THEN "sleep" ELSE "demote"]
    /\ mtransport' = [mtransport EXCEPT ![g] = None]
    /\ UNCHANGED <<other, fields, objs, user, sinks, hist>>

\* self._log("⚠️ ..."); self._connected = False
MonitorDemote(g) ==
    /\ mpc[g] = "demote"
    /\ _connected' = FALSE
    /\ mpc' = [mpc EXCEPT ![g] = "notify"]
    /\ UNCHANGED <<other, ssh_client, jump_client, _jump_channel, socks_server, http_proxy,
                   objs, user, mtransport, sinks, hist>>

\* self._notify_status("disconnected", ...); break
MonitorNotify(g) ==
    /\ mpc[g] = "notify"
    /\ _notify_status("disconnected", "monitor")
    /\ mpc' = [mpc EXCEPT ![g] = "done"]
    /\ UNCHANGED <<other, fields, objs, user, mtransport, emitted, hist>>

Monitor(g) ==
    \/ MonitorWake(g)
    \/ MonitorRead(g)
    \/ MonitorTest(g)
    \/ MonitorJumpTest(g)
    \/ MonitorDemote(g)
    \/ MonitorNotify(g)

----------------------------------------------------------------------------
\* The network: an established transport may drop at any time.

LoseTarget(g) ==
    /\ sshSt[g] = "open"
    /\ sshSt' = [sshSt EXCEPT ![g] = "lost"]
    /\ UNCHANGED <<other, fields, jumpSt, jchSt, socksSt, httpSt, user, mon, sinks, hist>>

LoseJump(g) ==
    /\ jumpSt[g] = "open"
    /\ jumpSt' = [jumpSt EXCEPT ![g] = "lost"]
    /\ UNCHANGED <<other, fields, sshSt, jchSt, socksSt, httpSt, user, mon, sinks, hist>>

----------------------------------------------------------------------------
Connect ==
    \/ ConnectCall
    \/ Precheck
    \/ NotifyConnecting
    \/ JumpConnect
    \/ JumpTransportCheck
    \/ JumpOpenChannel
    \/ TargetConnect
    \/ SetSshClient
    \/ StartSocks
    \/ StartHttp
    \/ SetConnected
    \/ StartMonitor
    \/ ConnectExcept

Disconnect ==
    \/ DisconnectCall
    \/ DisconnectFlag
    \/ DisconnectHttp
    \/ DisconnectSocks
    \/ DisconnectSsh
    \/ DisconnectJumpChannel
    \/ DisconnectJump
    \/ DisconnectNotify

Next ==
    \/ Connect
    \/ Disconnect
    \/ \E g \in Gens : Monitor(g)
    \/ \E g \in Gens : LoseTarget(g)
    \/ \E g \in Gens : LoseJump(g)

Spec == Init /\ [][Next]_vars

\* a step of a connect() or disconnect() call that is already in progress
CallStep ==
    \/ Precheck
    \/ NotifyConnecting
    \/ JumpConnect
    \/ JumpTransportCheck
    \/ JumpOpenChannel
    \/ TargetConnect
    \/ SetSshClient
    \/ StartSocks
    \/ StartHttp
    \/ SetConnected
    \/ StartMonitor
    \/ ConnectExcept
    \/ DisconnectFlag
    \/ DisconnectHttp
    \/ DisconnectSocks
    \/ DisconnectSsh
    \/ DisconnectJumpChannel
    \/ DisconnectJump
    \/ DisconnectNotify

\* a step of some thread of the program
ThreadStep == CallStep \/ \E g \in Gens : Monitor(g)

\* Threads are scheduled: while some thread of the program can take a step
\* (a monitor's sleep returns, a call in progress goes on: every SSH step has
\* a timeout), one of them eventually does.  Nothing forces the user to call,
\* nor the network to fail.
\* The liveness properties are checked over the behaviours in which the user
\* calls connect() at most MaxLiveConnects times.
MaxLiveConnects == 1
LiveNext == Next /\ gen' <= MaxLiveConnects
FairSpec ==
    /\ Init /\ [][LiveNext]_vars
    /\ WF_vars(ThreadStep)

----------------------------------------------------------------------------
\* connect() with its arguments: the credential fallbacks and checks, the
\* credentials handed to each login, and the message of what it raises.

\* markers looked for in the first bytes of a key file
PuTTYMarker    == "PuTTY-User-Key-File-"
PrivateHeaders == {"BEGIN OPENSSH PRIVATE KEY", "BEGIN RSA PRIVATE KEY",
                   "BEGIN EC PRIVATE KEY", "BEGIN DSA PRIVATE KEY"}
PublicPrefixes == {"ssh-", "ecdsa-"}
Markers == {PuTTYMarker} \cup PrivateHeaders \cup PublicPrefixes \cup {"other"}

\* number of markers in the 256 bytes read from a key file
MaxHead == 2

\* f.read(256) of the key files explored
Heads == UNION {[1..n -> Markers] : n \in 0..MaxHead}

\* a path is a string of characters; "" is the empty sequence
NoPath    == <<>>
PlainPath == <<"p", "u", "b">>
PubPath   == <<"k", ".", "p", "u", "b">>
UpperPath == <<"k", ".", "P", "U", "B">>
KeyPaths  == {PlainPath, PubPath, UpperPath}
DotPub    == <<".", "p", "u", "b">>

\* what a path names on disk
Missing     == [exists |-> FALSE, readable |-> FALSE, head |-> <<>>]
Unreadable  == [exists |-> TRUE, readable |-> FALSE, head |-> <<>>]
Readable(h) == [exists |-> TRUE, readable |-> TRUE, head |-> h]
Files       == {Missing, Unreadable} \cup {Readable(h) : h \in Heads}

\* str.lower() / str.endswith() / bytes.startswith() / `marker in head`
lowerChar(c) ==
    CASE c = "P" -> "p" [] c = "U" -> "u" [] c = "B" -> "b" [] OTHER -> c
lower(path) == [i \in 1..Len(path) |-> lowerChar(path[i])]
endswith(str, suffix) ==
    /\ Len(str) >= Len(suffix)
    /\ SubSeq(str, Len(str) - Len(suffix) + 1, Len(str)) = suffix
startswith(head, marker) == Len(head) > 0 /\ head[1] = marker
contains(head, marker) == \E i \in 1..Len(head) : head[i] = marker

\* The messages of connect().  A message is modelled by what its text names:
\* the hop (跳板机 "jump", 目标机 "target") and the credential (密码
\* "password", 私钥 / 公钥 "key").
Msg(id, names) == [id |-> id, names |-> names]
NoMsg == Msg("none", {})
NoExc == [cls |-> "none", msg |-> NoMsg]
Raised(cls, msg) == [cls |-> cls, msg |-> msg]

\* _precheck_key(path, label): the message it raises, NoMsg when it returns
_precheck_key_noPubTest(path, label) ==
    IF path = NoPath THEN NoMsg
    ELSE IF ~(fs[path].exists /\ fs[path].readable)
      THEN Msg("key_unreadable", {label, "key"})
    ELSE IF contains(fs[path].head, PuTTYMarker)
      THEN Msg("key_is_ppk", {label, "key"})
    ELSE IF \E h \in PrivateHeaders : contains(fs[path].head, h)
      THEN NoMsg
    ELSE IF \E x \in PublicPrefixes : startswith(fs[path].head, x)
      THEN Msg("key_is_public_text", {label, "key"})
    ELSE NoMsg
_precheck_key(path, label) ==
    IF path = NoPath THEN NoMsg
    ELSE IF endswith(lower(path), DotPub)
      THEN Msg("key_is_pub", {label, "key"})
    ELSE IF ~(fs[path].exists /\ fs[path].readable)
      THEN Msg("key_unreadable", {label, "key"})
    ELSE IF contains(fs[path].head, PuTTYMarker)
      THEN Msg("key_is_ppk", {label, "key"})
    ELSE IF \E h \in PrivateHeaders : contains(fs[path].head, h)
      THEN NoMsg
    ELSE IF \E x \in PublicPrefixes : startswith(fs[path].head, x)
      THEN Msg("key_is_public_text", {label, "key"})
    ELSE NoMsg

\* os.path.exists(path)
exists(path) == fs[path].exists

\* the check of one hop that selected key login: `if not path: raise ...;
\* if not os.path.exists(path): raise ...; _precheck_key(path, label)`
CheckKey(path, label) ==
    IF path = NoPath THEN Msg("no_key_file", {label, "key"})
    ELSE IF ~exists(path) THEN Msg("key_missing", {label, "key"})
    ELSE _precheck_key(path, label)

\* `a or b` on strings
Or(a, b) == IF a # "" THEN a ELSE b

\* _connect_ssh(...): the keyword arguments it hands to ssh_client.connect;
\* an absent keyword is <<>>, a present one <<value>>
_connect_ssh_byKeyPath(username, password, use_key, key_path, key_passphrase) ==
    [username |-> username,
     password |-> IF key_path # NoPath THEN <<>> ELSE <<password>>,
     pkey     |-> IF key_path # NoPath
                    THEN <<[path |-> key_path, passphrase |-> key_passphrase]>>
                    ELSE <<>>]
_connect_ssh(username, password, use_key, key_path, key_passphrase) ==
    [username |-> username,
     password |-> IF use_key THEN <<>> ELSE <<password>>,
     pkey     |-> IF use_key
                    THEN <<[path |-> key_path, passphrase |-> key_passphrase]>>
                    ELSE <<>>]

\* the login mode of an invocation
ModeOf(kwargs) == IF kwargs.pkey # <<>> THEN "key" ELSE "password"

\* what _load_pkey(path, passphrase, label) can do: return a key, or raise
\* "私钥需要口令" (a passphrase is needed and none was given) or
\* "私钥无法解析/口令错误"
LoadOutcomes(kwargs) ==
    IF kwargs.pkey = <<>> THEN {"ok"}
    ELSE IF kwargs.pkey[1].passphrase = ""
      THEN {"ok", "need_passphrase", "unparseable"}
      ELSE {"ok", "unparseable"}
LoadMsg(outcome) ==
    IF outcome = "need_passphrase"
      THEN Msg("key_needs_passphrase", {"key"})
      ELSE Msg("key_unparseable", {"key"})

\* what ssh_client.connect(**kwargs) can do: return, or raise
\* paramiko.AuthenticationException, socket.timeout, ConnectionRefusedError
\* or another exception
SshOutcomes == {"ok", "auth", "timeout", "refused", "error"}

\* the key files on disk when nothing else is said: a private key at the
\* plain path, public-key text at the .pub paths
DefaultFile(path) ==
    IF path = PlainPath THEN Readable(<<"BEGIN OPENSSH PRIVATE KEY">>)
                        ELSE Readable(<<"ssh-">>)

\* the arguments of connect() that the credential handling reads
ArgsOf(uk, uj, juk, kp, jkp, pw, ju, jpw, pp, jpp) ==
    [username |-> "u", password |-> pw, use_key |-> uk,
     key_path |-> kp, key_passphrase |-> pp,
     use_jump |-> uj, jump_username |-> ju, jump_password |-> jpw,
     jump_use_key |-> juk, jump_key_path |-> jkp, jump_key_passphrase |-> jpp]

\* calls explored: every kind of key file at one path, used by either hop ...
KeyFilePairs(p) ==
    {<<p, NoPath>>, <<p, p>>, <<PlainPath, p>>}
KeyFileInputs ==
    \E p \in KeyPaths, f \in Files, uk \in BOOLEAN, uj \in BOOLEAN, juk \in BOOLEAN :
      \E kk \in KeyFilePairs(p) :
        /\ fs = [q \in KeyPaths |-> IF q = p THEN f ELSE DefaultFile(q)]
        /\ args = ArgsOf(uk, uj, juk, kk[1], kk[2], "p", "ju", "jp", "", "")

\* ... and every combination of populated and empty credential fields
CredentialInputs ==
    \E uk \in BOOLEAN, uj \in BOOLEAN, juk \in BOOLEAN,
       kp \in {NoPath, PlainPath}, jkp \in {NoPath, PlainPath, PubPath},
       pw \in {"", "p"}, ju \in {"", "ju"}, jpw \in {"", "jp"},
       pp \in {"", "kp"}, jpp \in {"", "jkp"} :
        /\ fs = [q \in KeyPaths |-> DefaultFile(q)]
        /\ args = ArgsOf(uk, uj, juk, kp, jkp, pw, ju, jpw, pp, jpp)

\* connect(...) is entered with some arguments
ArgsInit ==
    /\ KeyFileInputs \/ CredentialInputs
    /\ loc = [jump_username |-> args.jump_username,
              jump_password |-> args.jump_password,
              jump_key_path |-> args.jump_key_path,
              jump_key_passphrase |-> args.jump_key_passphrase]
    /\ apc = "a_fallback"
    /\ calls = <<>>
    /\ exc = NoExc
    /\ authfail = <<>>
    /\ began = FALSE

\* if use_jump: jump_username = jump_username or username;
\*              jump_password = jump_password or password
JumpFallback ==
    /\ apc = "a_fallback"
    /\ loc' = IF args.use_jump
                THEN [loc EXCEPT !.jump_username = Or(@, args.username),
                                 !.jump_password = Or(@, args.password)]
                ELSE loc
    /\ apc' = "a_check_target"
    /\ UNCHANGED <<manager, socksv, extra, fs, args, calls, exc, authfail, began>>

\* if use_key: ... _precheck_key(key_path, "目标机")
CheckTargetKey ==
    /\ apc = "a_check_target"
    /\ LET m == IF args.use_key THEN CheckKey(args.key_path, "target") ELSE NoMsg
       IN  IF m # NoMsg
             THEN exc' = Raised("error", m) /\ apc' = "a_except"
             ELSE UNCHANGED exc /\ apc' = "a_check_jump"
    /\ UNCHANGED <<manager, socksv, extra, fs, args, loc, calls, authfail, began>>

\* the key path and passphrase of the jump once `if not jump_key_path:
\* jump_key_path = key_path; jump_key_passphrase = jump_key_passphrase or
\* key_passphrase` has run
KeyFallback_targetPassphrase(l) ==
    IF l.jump_key_path = NoPath
      THEN [l EXCEPT !.jump_key_path = args.key_path,
                     !.jump_key_passphrase = args.key_passphrase]
      ELSE l
KeyFallback(l) ==
    IF l.jump_key_path = NoPath
      THEN [l EXCEPT !.jump_key_path = args.key_path,
                     !.jump_key_passphrase = Or(@, args.key_passphrase)]
      ELSE l

\* if use_jump and jump_use_key: ... _precheck_key(jump_key_path, "跳板机")
CheckJumpKey ==
    /\ apc = "a_check_jump"
    /\ IF args.use_jump /\ args.jump_use_key
         THEN LET l == KeyFallback(loc)
                  m == CheckKey(l.jump_key_path, "jump")
              IN  /\ loc' = l
                  /\ IF m # NoMsg
                       THEN exc' = Raised("error", m) /\ apc' = "a_except"
                       ELSE UNCHANGED exc /\ apc' = "a_begin"
         ELSE UNCHANGED <<loc, exc>> /\ apc' = "a_begin"
    /\ UNCHANGED <<manager, socksv, extra, fs, args, calls, authfail, began>>

\* self._log(...); self._notify_status("connecting", ...); self.disconnect();
\* client = paramiko.SSHClient()
Begin ==
    /\ apc = "a_begin"
    /\ began' = TRUE
    /\ apc' = IF args.use_jump THEN "a_jump" ELSE "a_direct"
    /\ UNCHANGED <<manager, socksv, extra, fs, args, loc, calls, exc, authfail>>

\* One _connect_ssh(...) invocation for `hop` with keyword arguments kw:
\* _load_pkey may raise; otherwise ssh_client.connect is invoked and returns
\* (outcome) or raises.
Login(hop, kw, outcome, load) ==
    IF load # "ok"
      THEN /\ UNCHANGED <<calls, authfail>>
      ELSE /\ calls' = Append(calls, [hop |-> hop, kwargs |-> kw])
           /\ authfail' = IF outcome = "auth"
                            THEN <<[hop |-> hop, mode |-> ModeOf(kw)]>>
                            ELSE authfail

\* message of `raise Exception(f"<prefix>: {e}")`: the prefix names `names`,
\* the text of e is kept
Wrap(id, names, e) == Msg(id, names \cup e.names)

\* what str(e) names for an exception raised by ssh_client.connect
LibraryMsg(outcome) == Msg(outcome, {})

\* jump_client = paramiko.SSHClient(); try: _connect_ssh(jump_client, ...,
\* use_key=jump_use_key, ...) except paramiko.AuthenticationException: raise
\* Exception("跳板机认证失败：用户名/密码/私钥不匹配") except Exception as e:
\* raise Exception(f"跳板机登录失败: {e}")
ConnectJump ==
    /\ apc = "a_jump"
    /\ LET kw == _connect_ssh(loc.jump_username, loc.jump_password,
                              args.jump_use_key, loc.jump_key_path,
                              loc.jump_key_passphrase)
       IN  \E load \in LoadOutcomes(kw), r \in SshOutcomes :
             /\ Login("jump", kw, r, load)
             /\ IF load # "ok"
                  THEN /\ exc' = Raised("error",
                                    Wrap("jump_login_failed", {"jump"}, LoadMsg(load)))
                       /\ apc' = "a_except"
                ELSE IF r = "ok"
                  THEN UNCHANGED exc /\ apc' = "a_jump_transport"
                ELSE IF r = "auth"
                  THEN /\ exc' = Raised("error",
                                    Msg("jump_auth_failed", {"jump", "password", "key"}))
                       /\ apc' = "a_except"
                  ELSE /\ exc' = Raised("error",
                                    Wrap("jump_login_failed", {"jump"}, LibraryMsg(r)))
                       /\ apc' = "a_except"
    /\ UNCHANGED <<manager, socksv, extra, fs, args, loc, began>>

\* if jump_transport is None or not jump_transport.is_active():
\*     raise Exception("跳板机连接成功但 Transport 不可用")
\* try: jump_channel = jump_transport.open_channel(...) except Exception as e:
\*     raise Exception(f"跳板机到目标机转发失败(...): {e}")
JumpForward ==
    /\ apc = "a_jump_transport"
    /\ \E r \in {"ok", "inactive", "refused"} :
         IF r = "ok"
           THEN UNCHANGED exc /\ apc' = "a_target_via_jump"
         ELSE IF r = "inactive"
           THEN /\ exc' = Raised("error", Msg("jump_transport_unusable", {"jump"}))
                /\ apc' = "a_except"
           ELSE /\ exc' = Raised("error",
                             Wrap("jump_forward_failed", {"jump", "target"}, LibraryMsg(r)))
                /\ apc' = "a_except"
    /\ UNCHANGED <<manager, socksv, extra, fs, args, loc, calls, authfail, began>>

\* the flag that selects the message of a rejected target login over the
\* jump: `if use_key: raise ...公钥认证失败...; raise ...密码认证失败...`
InnerModeFlag_jumpFlag == args.jump_use_key
InnerModeFlag == args.use_key

\* try: _connect_ssh(client, ..., use_key=use_key, ..., sock=jump_channel)
\* except paramiko.AuthenticationException: raise Exception("目标机公钥认证失败
\* ...") / Exception("目标机密码认证失败：用户名或密码错误")
\* except Exception as e: raise Exception(f"目标机登录失败(经跳板机): {e}")
ConnectTargetViaJump ==
    /\ apc = "a_target_via_jump"
    /\ LET kw == _connect_ssh(args.username, args.password, args.use_key,
                              args.key_path, args.key_passphrase)
       IN  \E load \in LoadOutcomes(kw), r \in SshOutcomes :
             /\ Login("target", kw, r, load)
             /\ IF load # "ok"
                  THEN /\ exc' = Raised("error",
                                    Wrap("target_login_failed", {"target", "jump"},
                                         LoadMsg(load)))
                       /\ apc' = "a_except"
                ELSE IF r = "ok"
                  THEN UNCHANGED exc /\ apc' = "a_finish"
                ELSE IF r = "auth"
                  THEN /\ exc' = Raised("error",
                                    IF InnerModeFlag
                                      THEN Msg("target_key_auth_failed", {"target", "key"})
                                      ELSE Msg("target_password_auth_failed",
                                               {"target", "password"}))
                       /\ apc' = "a_except"
                  ELSE /\ exc' = Raised("error",
                                    Wrap("target_login_failed", {"target", "jump"},
                                         LibraryMsg(r)))
                       /\ apc' = "a_except"
    /\ UNCHANGED <<manager, socksv, extra, fs, args, loc, began>>

\* try: _connect_ssh(client, ..., use_key=use_key, ...)
\* except paramiko.AuthenticationException: raise Exception("公钥认证失败...")
\* / Exception("密码认证失败：用户名或密码错误"); anything else propagates
ConnectTargetDirect ==
    /\ apc = "a_direct"
    /\ LET kw == _connect_ssh(args.username, args.password, args.use_key,
                              args.key_path, args.key_passphrase)
       IN  \E load \in LoadOutcomes(kw), r \in SshOutcomes :
             /\ Login("target", kw, r, load)
             /\ IF load # "ok"
                  THEN exc' = Raised("error", LoadMsg(load)) /\ apc' = "a_except"
                ELSE IF r = "ok"
                  THEN UNCHANGED exc /\ apc' = "a_finish"
                ELSE IF r = "auth"
                  THEN /\ exc' = Raised("error",
                                    IF args.use_key
                                      THEN Msg("key_auth_failed", {"key"})
                                      ELSE Msg("password_auth_failed", {"password"}))
                       /\ apc' = "a_except"
                  ELSE exc' = Raised(r, LibraryMsg(r)) /\ apc' = "a_except"
    /\ UNCHANGED <<manager, socksv, extra, fs, args, loc, began>>

\* the rest of connect(): transport, listeners, "connected", monitor; a
\* listener whose port is taken raises OSError
Finish ==
    /\ apc = "a_finish"
    /\ \E ok \in BOOLEAN :
         IF ok
           THEN UNCHANGED exc /\ apc' = "a_done"
           ELSE exc' = Raised("error", Msg("setup_failed", {})) /\ apc' = "a_except"
    /\ UNCHANGED <<manager, socksv, extra, fs, args, loc, calls, authfail, began>>

\* the message connect() raises for the exception e that reached its except
\* clauses: "认证失败：用户名/密码/私钥不匹配", "连接超时：...",
\* "连接被拒绝：...", or f"连接失败: {e}"
OuterMsg(e) ==
    CASE e.cls = "auth"    -> Msg("auth_failed", {"password", "key"})
      [] e.cls = "timeout" -> Msg("timed_out", {})
      [] e.cls = "refused" -> Msg("refused", {})
      [] OTHER             -> Wrap(e.msg.id, {}, e.msg)

\* except ...: self._log(msg); self._notify_status("disconnected", msg);
\* raise Exception(msg)
Except ==
    /\ apc = "a_except"
    /\ exc' = Raised("raised", OuterMsg(exc))
    /\ apc' = "a_raised"
    /\ UNCHANGED <<manager, socksv, extra, fs, args, loc, calls, authfail, began>>

NextArgs ==
    \/ JumpFallback
    \/ CheckTargetKey
    \/ CheckJumpKey
    \/ Begin
    \/ ConnectJump
    \/ JumpForward
    \/ ConnectTargetViaJump
    \/ ConnectTargetDirect
    \/ Finish
    \/ Except

\* connect() followed with its arguments, from its entry to its return or raise
ArgsSpecInit == ManagerInit /\ ArgsInit /\ SocksOff /\ ExtraOff
ArgsSpec == ArgsSpecInit /\ [][NextArgs]_vars

----------------------------------------------------------------------------
\* Socks5Server: the accept thread, one client handler followed from accept
\* to the end of its relay, and the part of disconnect() that stops the
\* server and closes the SSH client whose transport the server uses.
\* Handlers share nothing with each other but self.running and
\* self.transport.

Min(a, b) == IF a <= b THEN a ELSE b

\* client.recv(n) on the bytes still to come: what it returns, what remains
\* (at the end of the client's bytes recv returns what is left, then b"")
Take(buf, n) == SubSeq(buf, 1, Min(n, Len(buf)))
Drop(buf, n) == SubSeq(buf, Min(n, Len(buf)) + 1, Len(buf))

\* the replies of the server
MethodReply == <<5, 0>>
Reply(rep)  == <<5, rep, 0, 1, 0, 0, 0, 0, 0, 0>>

\* an event of the handler: a sendall, the result of open_channel, the start
\* of the relay
Event(ev, data) == [ev |-> ev, data |-> data]

\* if len(header) < 2 or header[0] != 0x05
HeaderRefused(header) == Len(header) < 2 \/ header[1] # 5

\* if len(request) < 4 or request[0] != 0x05 or request[1] != 0x01
RequestRefused_anyCommand(request) ==
    Len(request) < 4 \/ request[1] # 5
RequestRefused(request) ==
    Len(request) < 4 \/ request[1] # 5 \/ request[2] # 1

\* bytes.decode("utf-8") raises on a byte that no UTF-8 text contains
Decodes(bytes) == \A i \in 1..Len(bytes) : bytes[i] < 128

\* The address and port of a request of address type atyp read from buf:
\* "ok", "unknown" (no such address type) or "error" (an exception:
\* socket.inet_ntoa / inet_ntop on a short read, [0] of an empty read,
\* decode, struct.unpack on a short read)
ParseDest(atyp, buf) ==
    LET addr == CASE atyp = 1 -> [ok |-> Len(Take(buf, 4)) = 4, rest |-> Drop(buf, 4)]
                  [] atyp = 3 ->
                       IF Len(buf) = 0 THEN [ok |-> FALSE, rest |-> buf]
                       ELSE [ok   |-> Decodes(Take(Drop(buf, 1), buf[1])),
                             rest |-> Drop(Drop(buf, 1), buf[1])]
                  [] atyp = 4 -> [ok |-> Len(Take(buf, 16)) = 16, rest |-> Drop(buf, 16)]
                  [] OTHER -> [ok |-> FALSE, rest |-> buf]
    IN  IF atyp \notin {1, 3, 4} THEN "unknown"
        ELSE IF ~addr.ok THEN "error"
        ELSE IF Len(Take(addr.rest, 2)) # 2 THEN "error"
        ELSE "ok"

\* the order of the handler's steps for a request it has parsed
ConnectSteps_replyFirst == <<"h_reply", "h_open", "h_relay">>
ConnectSteps == <<"h_open", "h_reply", "h_relay">>

\* what SOCKS5 clients send: a greeting, then a request
Greetings == {<<5, 1, 0>>, <<5, 2, 0, 2>>, <<5, 0>>, <<4, 1, 0>>}
Addresses(atyp) ==
    CASE atyp = 1 -> {<<127, 0, 0, 1>>}
      [] atyp = 3 -> {<<2, 104, 105>>, <<1, 255>>}
      [] atyp = 4 -> {[i \in 1..16 |-> IF i = 16 THEN 1 ELSE 0]}
      [] OTHER    -> {<<9, 9, 9, 9>>}
Port == <<0, 80>>

\* Socks5Server(transport, port) and start(): the server listens, its accept
\* thread runs, the tunnel is up
SocksInit ==
    /\ running = TRUE /\ server_socket = "listening" /\ transport = "active"
    /\ _use_c_engine \in BOOLEAN
    /\ accpc = "test" /\ dpc = "idle"
    /\ hpc = "none" /\ stream = <<>> /\ inbuf = <<>>
    /\ client = "none" /\ chan = "none" /\ crelay = FALSE /\ trace = <<>>

\* ---- _accept_loop

\* while self.running:
AcceptTest ==
    /\ accpc = "test"
    /\ accpc' = IF running THEN "accept" ELSE "exit"
    /\ UNCHANGED <<manager, argsv, extra, running, server_socket, transport, _use_c_engine,
                   dpc, hpc, stream, inbuf, client, chan, crelay, trace>>

\* self.server_socket.accept() returns a client that will send `stream`;
\* a thread runs _handle_client for it
AcceptClient ==
    /\ accpc = "accept" /\ server_socket = "listening" /\ hpc = "none"
    /\ \E g \in Greetings, ver \in {5, 4}, cmd \in {1, 2, 3}, atyp \in {1, 2, 3, 4} :
         \E a \in Addresses(atyp) :
           LET whole == g \o <<ver, cmd, 0, atyp>> \o a \o Port
           IN  \E n \in 0..Len(whole) :
                 /\ stream' = Take(whole, n)
                 /\ inbuf' = Take(whole, n)
    /\ hpc' = "h_header"
    /\ client' = "open"
    /\ accpc' = "test"
    /\ UNCHANGED <<manager, argsv, extra, running, server_socket, transport, _use_c_engine,
                   dpc, chan, crelay, trace>>

\* accept() times out after 1 s (continue), or raises on the closed socket
\* (break)
AcceptNone ==
    /\ accpc = "accept"
    /\ accpc' = IF server_socket = "listening" THEN "test" ELSE "exit"
    /\ UNCHANGED <<manager, argsv, extra, running, server_socket, transport, _use_c_engine,
                   dpc, hpc, stream, inbuf, client, chan, crelay, trace>>

\* accept() raises on the listening socket (ECONNABORTED, EMFILE, ...):
\* except Exception as e: if self.running: logger.error(...); break
AcceptError ==
    /\ accpc = "accept" /\ server_socket = "listening"
    /\ accpc' = "exit"
    /\ UNCHANGED <<manager, argsv, extra, running, server_socket, transport, _use_c_engine,
                   dpc, hpc, stream, inbuf, client, chan, crelay, trace>>

\* ---- _handle_client

\* header = client.recv(2); if len(header) < 2 or header[0] != 0x05:
\* client.close(); return
HandleHeader ==
    /\ hpc = "h_header"
    /\ inbuf' = Drop(inbuf, 2)
    /\ IF HeaderRefused(Take(inbuf, 2))
         THEN hpc' = "h_done" /\ client' = "closed"
         ELSE hpc' = "h_methods" /\ UNCHANGED client
    /\ UNCHANGED <<manager, argsv, extra, running, server_socket, transport, _use_c_engine,
                   accpc, dpc, stream, chan, crelay, trace>>

\* num_methods = header[1]; client.recv(num_methods);
\* client.sendall(b"\x05\x00")
HandleMethods ==
    /\ hpc = "h_methods"
    /\ inbuf' = Drop(inbuf, Take(stream, 2)[2])
    /\ trace' = Append(trace, Event("send", MethodReply))
    /\ hpc' = "h_request"
    /\ UNCHANGED <<manager, argsv, extra, running, server_socket, transport, _use_c_engine,
                   accpc, dpc, stream, client, chan, crelay>>

\* request = client.recv(4); ... the address by addr_type ...;
\* port_bytes = client.recv(2); dest_port = struct.unpack("!H", port_bytes)[0]
\* A refused request is answered 0x07, an unknown address type 0x08; an
\* exception goes to `finally: client.close()` with no reply.
HandleRequest ==
    /\ hpc = "h_request"
    /\ LET request == Take(inbuf, 4)
           rest    == Drop(inbuf, 4)
       IN  IF RequestRefused(request)
             THEN /\ trace' = Append(trace, Event("send", Reply(7)))
                  /\ hpc' = "h_done" /\ client' = "closed"
                  /\ inbuf' = rest
           ELSE IF ParseDest(request[4], rest) = "unknown"
             THEN /\ trace' = Append(trace, Event("send", Reply(8)))
                  /\ hpc' = "h_done" /\ client' = "closed"
                  /\ inbuf' = rest
           ELSE IF ParseDest(request[4], rest) = "error"
             THEN /\ hpc' = "h_done" /\ client' = "closed"
                  /\ inbuf' = <<>>
                  /\ UNCHANGED trace
             ELSE /\ hpc' = Head(ConnectSteps)
                  /\ inbuf' = <<>>
                  /\ UNCHANGED <<client, trace>>
    /\ UNCHANGED <<manager, argsv, extra, running, server_socket, transport, _use_c_engine,
                   accpc, dpc, stream, chan, crelay>>

\* position after pc in ConnectSteps
AfterStep(pc) ==
    LET i == CHOOSE k \in 1..Len(ConnectSteps) : ConnectSteps[k] = pc
    IN  IF i < Len(ConnectSteps) THEN ConnectSteps[i + 1] ELSE "h_done"

\* try: channel = self.transport.open_channel("direct-tcpip", ...)
\* except Exception: client.sendall(b"\x05\x05\x00\x01" + ...); client.close();
\* return.  The open fails when the transport is closed, or when the far end
\* refuses or times out.
HandleOpen ==
    /\ hpc = "h_open"
    /\ \E ok \in BOOLEAN :
         IF ok /\ transport = "active"
           THEN /\ chan' = "open"
                /\ trace' = Append(trace, Event("open_ok", <<>>))
                /\ hpc' = AfterStep("h_open")
                /\ UNCHANGED client
           ELSE /\ trace' = trace \o <<Event("open_failed", <<>>),
                                       Event("send", Reply(5))>>
                /\ hpc' = "h_done" /\ client' = "closed"
                /\ UNCHANGED chan
    /\ UNCHANGED <<manager, argsv, extra, running, server_socket, transport, _use_c_engine,
                   accpc, dpc, stream, inbuf, crelay>>

\* reply = b"\x05\x00\x00\x01" + inet_aton("0.0.0.0") + pack("!H", 0);
\* client.sendall(reply)
\* When the client has gone sendall raises: except Exception: logger.debug,
\* then finally: client.close().
HandleReply ==
    /\ hpc = "h_reply"
    /\ trace' = Append(trace, Event("send", Reply(0)))
    /\ \E sent \in BOOLEAN :
         IF sent THEN hpc' = AfterStep("h_reply") /\ UNCHANGED client
                 ELSE hpc' = "h_done" /\ client' = "closed"
    /\ UNCHANGED <<manager, argsv, extra, running, server_socket, transport, _use_c_engine,
                   accpc, dpc, stream, inbuf, chan, crelay>>

\* if self._use_c_engine: if not c_engine.start_relay(client_fd, channel_fd,
\* 300): self._relay_python(client, channel)   else: self._relay_python(...)
\* When the C engine takes the pair, _handle_client goes on to
\* `finally: client.close()`.
HandleRelay ==
    /\ hpc = "h_relay"
    /\ \E started \in BOOLEAN :
         IF _use_c_engine /\ started
           THEN /\ crelay' = TRUE
                /\ trace' = Append(trace, Event("relay", <<>>))
                /\ hpc' = "h_done" /\ client' = "closed"
           ELSE /\ trace' = Append(trace, Event("relay", <<>>))
                /\ hpc' = "r_test"
                /\ UNCHANGED <<crelay, client>>
    /\ UNCHANGED <<manager, argsv, extra, running, server_socket, transport, _use_c_engine,
                   accpc, dpc, stream, inbuf, chan>>

\* ---- _relay_python, in the handler's thread

\* while self.running:
RelayTest ==
    /\ hpc = "r_test"
    /\ hpc' = IF running THEN "r_select" ELSE "r_close"
    /\ UNCHANGED <<manager, argsv, extra, running, server_socket, transport, _use_c_engine,
                   accpc, dpc, stream, inbuf, client, chan, crelay, trace>>

\* r, _, _ = select.select([client, channel], [], [], 1.0) and the copies:
\* data was copied or the second passed (next turn), or one side is at its
\* end or failed (break / except)
RelaySelect ==
    /\ hpc = "r_select"
    /\ \E ended \in BOOLEAN :
         hpc' = IF ended \/ chan # "open" THEN "r_close" ELSE "r_test"
    /\ UNCHANGED <<manager, argsv, extra, running, server_socket, transport, _use_c_engine,
                   accpc, dpc, stream, inbuf, client, chan, crelay, trace>>

\* finally: channel.close(); then, in _handle_client, finally: client.close()
RelayClose ==
    /\ hpc = "r_close"
    /\ chan' = "closed"
    /\ client' = "closed"
    /\ hpc' = "h_done"
    /\ UNCHANGED <<manager, argsv, extra, running, server_socket, transport, _use_c_engine,
                   accpc, dpc, stream, inbuf, crelay, trace>>

\* ---- disconnect(): self.socks_server.stop(), then self.ssh_client.close()

\* disconnect() reaches `if self.socks_server: self.socks_server.stop()`:
\* self.running = False
StopFlag ==
    /\ dpc = "idle"
    /\ running' = FALSE
    /\ dpc' = "stop_close"
    /\ UNCHANGED <<manager, argsv, extra, server_socket, transport, _use_c_engine,
                   accpc, hpc, stream, inbuf, client, chan, crelay, trace>>

\* self.server_socket.close()
StopClose ==
    /\ dpc = "stop_close"
    /\ server_socket' = "closed"
    /\ dpc' = "stop_join"
    /\ UNCHANGED <<manager, argsv, extra, running, transport, _use_c_engine,
                   accpc, hpc, stream, inbuf, client, chan, crelay, trace>>

\* self._thread.join(timeout=3): the accept thread has ended, or 3 s passed
StopJoin ==
    /\ dpc = "stop_join"
    /\ dpc' = "ssh_close"
    /\ UNCHANGED <<manager, argsv, extra, running, server_socket, transport, _use_c_engine,
                   accpc, hpc, stream, inbuf, client, chan, crelay, trace>>

\* self.ssh_client.close(): paramiko closes the transport and, with it, the
\* channels still open on it
CloseSsh ==
    /\ dpc = "ssh_close"
    /\ transport' = "closed"
    /\ chan' = IF chan = "open" THEN "closed" ELSE chan
    /\ crelay' = FALSE
    /\ dpc' = "done"
    /\ UNCHANGED <<manager, argsv, extra, running, server_socket, _use_c_engine,
                   accpc, hpc, stream, inbuf, client, trace>>

NextSocks ==
    \/ AcceptTest
    \/ AcceptClient
    \/ AcceptNone
    \/ AcceptError
    \/ HandleHeader
    \/ HandleMethods
    \/ HandleRequest
    \/ HandleOpen
    \/ HandleReply
    \/ HandleRelay
    \/ RelayTest
    \/ RelaySelect
    \/ RelayClose
    \/ StopFlag
    \/ StopClose
    \/ StopJoin
    \/ CloseSsh

\* a Socks5Server from start() to the end of disconnect()
SocksSpecInit == ManagerInit /\ ArgsOff /\ SocksInit /\ ExtraOff
SocksSpec == SocksSpecInit /\ [][NextSocks]_vars

----------------------------------------------------------------------------
\* Socks5Server._handle_client and _relay_python for one client whose bytes
\* arrive in pieces: the client writes a greeting, a CONNECT request and
\* its payload; the network delivers them to the client socket in any
\* fragments; the handler's recv(n) returns what has arrived, at most n
\* bytes.  The server is running throughout and relays in Python.

\* what one connection carries: the client's greeting, request and payload,
\* and the bytes the remote end answers
Payload     == <<71, 10>>
OriginBytes == <<72, 73>>
LegalGreetings == {<<5, 1, 0>>, <<5, 2, 0, 2>>}
LegalRequests  ==
    UNION {{<<5, 1, 0, atyp>> \o a \o Port : a \in {b \in Addresses(atyp) : Decodes(b)}} :
             atyp \in {1, 3, 4}}

\* a blocking client.recv(n) can return: bytes have arrived, or the client
\* has written all it had (then recv returns what is left, at the end b"");
\* recv(0) returns at once
CanRecv(n) == n = 0 \/ arrived # <<>> \/ wire = <<>>

\* socket.accept() has returned the client and a thread runs _handle_client
StreamInit ==
    /\ \E g \in LegalGreetings, r \in LegalRequests :
         /\ conn = [greeting |-> g, request |-> r]
         /\ wire = g \o r \o Payload
    /\ arrived = <<>> /\ spc = "s_header" /\ num_methods = 0
    /\ addr_type = 0 /\ addr_len = 0 /\ dest = <<>> /\ replies = <<>>
    /\ origin = <<>> /\ up = <<>> /\ down = <<>>

\* the network delivers the next k bytes the client wrote
Arrive ==
    /\ wire # <<>>
    /\ \E k \in 1..Len(wire) :
         /\ arrived' = arrived \o Take(wire, k)
         /\ wire' = Drop(wire, k)
    /\ UNCHANGED <<manager, argsv, socksv, notStream, conn, spc, num_methods, addr_type,
                   addr_len, dest, replies, origin, up, down>>

\* header = client.recv(2); if len(header) < 2 or header[0] != 0x05:
\* client.close(); return;  num_methods = header[1]
StreamHeader ==
    /\ spc = "s_header" /\ CanRecv(2)
    /\ arrived' = Drop(arrived, 2)
    /\ IF HeaderRefused(Take(arrived, 2))
         THEN spc' = "s_done" /\ UNCHANGED num_methods
         ELSE spc' = "s_methods" /\ num_methods' = Take(arrived, 2)[2]
    /\ UNCHANGED <<manager, argsv, socksv, notStream, conn, wire, addr_type, addr_len, dest,
                   replies, origin, up, down>>

\* client.recv(num_methods); client.sendall(b"\x05\x00")
StreamMethods ==
    /\ spc = "s_methods" /\ CanRecv(num_methods)
    /\ arrived' = Drop(arrived, num_methods)
    /\ replies' = Append(replies, MethodReply)
    /\ spc' = "s_request"
    /\ UNCHANGED <<manager, argsv, socksv, notStream, conn, wire, num_methods, addr_type,
                   addr_len, dest, origin, up, down>>

\* request = client.recv(4); a refused request is answered 0x07;
\* addr_type = request[3]; an unknown address type is answered 0x08
StreamRequest ==
    /\ spc = "s_request" /\ CanRecv(4)
    /\ arrived' = Drop(arrived, 4)
    /\ LET request == Take(arrived, 4)
       IN  IF RequestRefused(request)
             THEN /\ replies' = Append(replies, Reply(7))
                  /\ spc' = "s_done" /\ UNCHANGED addr_type
           ELSE IF request[4] \notin {1, 3, 4}
             THEN /\ replies' = Append(replies, Reply(8))
                  /\ spc' = "s_done" /\ UNCHANGED addr_type
             ELSE /\ addr_type' = request[4]
                  /\ spc' = IF request[4] = 3 THEN "s_addr_len" ELSE "s_addr"
                  /\ UNCHANGED replies
    /\ UNCHANGED <<manager, argsv, socksv, notStream, conn, wire, num_methods, addr_len, dest,
                   origin, up, down>>

\* addr_len = client.recv(1)[0]   (IndexError on b"": to finally)
StreamAddrLen ==
    /\ spc = "s_addr_len" /\ CanRecv(1)
    /\ arrived' = Drop(arrived, 1)
    /\ IF Take(arrived, 1) = <<>>
         THEN spc' = "s_done" /\ UNCHANGED addr_len
         ELSE spc' = "s_addr" /\ addr_len' = arrived[1]
    /\ UNCHANGED <<manager, argsv, socksv, notStream, conn, wire, num_methods, addr_type, dest,
                   replies, origin, up, down>>

\* how many bytes the address read asks for
AddrRead == CASE addr_type = 1 -> 4
              [] addr_type = 3 -> addr_len
              [] OTHER         -> 16

\* addr_bytes = client.recv(4) / client.recv(addr_len) / client.recv(16);
\* socket.inet_ntoa and inet_ntop raise on a short read, decode on a byte
\* that is not UTF-8 (to finally, no reply); a domain name is taken as read
StreamAddr ==
    /\ spc = "s_addr" /\ CanRecv(AddrRead)
    /\ arrived' = Drop(arrived, AddrRead)
    /\ LET addr_bytes == Take(arrived, AddrRead)
           raises == IF addr_type = 3 THEN ~Decodes(addr_bytes)
                     ELSE Len(addr_bytes) # AddrRead
       IN  IF raises
             THEN spc' = "s_done" /\ UNCHANGED dest
             ELSE spc' = "s_port" /\ dest' = <<addr_bytes>>
    /\ UNCHANGED <<manager, argsv, socksv, notStream, conn, wire, num_methods, addr_type,
                   addr_len, replies, origin, up, down>>

\* port_bytes = client.recv(2); dest_port = struct.unpack("!H", port_bytes)[0]
\* (struct.error on a short read: to finally, no reply)
StreamPort ==
    /\ spc = "s_port" /\ CanRecv(2)
    /\ arrived' = Drop(arrived, 2)
    /\ IF Len(Take(arrived, 2)) # 2
         THEN spc' = "s_done" /\ UNCHANGED dest
         ELSE spc' = "s_open" /\ dest' = Append(dest, Take(arrived, 2))
    /\ UNCHANGED <<manager, argsv, socksv, notStream, conn, wire, num_methods, addr_type,
                   addr_len, replies, origin, up, down>>

\* channel = self.transport.open_channel("direct-tcpip", (dest_addr,
\* dest_port), ...); on an exception reply 0x05, close, return
StreamOpen ==
    /\ spc = "s_open"
    /\ \E ok \in BOOLEAN :
         IF ok THEN /\ spc' = "s_reply"
                    /\ origin' = OriginBytes
                    /\ UNCHANGED replies
               ELSE /\ spc' = "s_done"
                    /\ replies' = Append(replies, Reply(5))
                    /\ UNCHANGED origin
    /\ UNCHANGED <<manager, argsv, socksv, notStream, conn, wire, arrived, num_methods,
                   addr_type, addr_len, dest, up, down>>

\* client.sendall(reply) with the success reply; self._relay_python(...)
StreamReply ==
    /\ spc = "s_reply"
    /\ replies' = Append(replies, Reply(0))
    /\ spc' = "s_relay"
    /\ UNCHANGED <<manager, argsv, socksv, notStream, conn, wire, arrived, num_methods,
                   addr_type, addr_len, dest, origin, up, down>>

\* if client in r: data = client.recv(65536); channel.sendall(data)
\* (sendall on the non-blocking channel may raise after part of data went
\* out: except: pass, then finally)
RelayUp ==
    /\ spc = "s_relay" /\ arrived # <<>>
    /\ arrived' = <<>>
    /\ \E n \in 0..Len(arrived) :
         /\ up' = up \o Take(arrived, n)
         /\ spc' = IF n = Len(arrived) THEN "s_relay" ELSE "s_done"
    /\ UNCHANGED <<manager, argsv, socksv, notStream, conn, wire, num_methods, addr_type,
                   addr_len, dest, replies, origin, down>>

\* if channel in r: data = channel.recv(65536); client.sendall(data)
RelayDown ==
    /\ spc = "s_relay" /\ origin # <<>>
    /\ \E k \in 1..Len(origin), n \in 0..Len(origin) :
         /\ n <= k
         /\ origin' = Drop(origin, k)
         /\ down' = down \o Take(origin, n)
         /\ spc' = IF n = k THEN "s_relay" ELSE "s_done"
    /\ UNCHANGED <<manager, argsv, socksv, notStream, conn, wire, arrived, num_methods,
                   addr_type, addr_len, dest, replies, up>>

\* if not data: break  on either side at its end, or an exception of select
\* or recv; finally: channel.close(), then client.close()
RelayEnd ==
    /\ spc = "s_relay"
    /\ spc' = "s_done"
    /\ UNCHANGED <<manager, argsv, socksv, notStream, conn, wire, arrived, num_methods,
                   addr_type, addr_len, dest, replies, origin, up, down>>

NextStream ==
    \/ Arrive
    \/ StreamHeader
    \/ StreamMethods
    \/ StreamRequest
    \/ StreamAddrLen
    \/ StreamAddr
    \/ StreamPort
    \/ StreamOpen
    \/ StreamReply
    \/ RelayUp
    \/ RelayDown
    \/ RelayEnd

\* one SOCKS5 client from accept to the end of its relay
StreamSpecInit ==
    ManagerInit /\ ArgsOff /\ SocksOff /\ StreamInit /\ HttpOff /\ ParseOff /\ StatsOff
StreamSpec == StreamSpecInit /\ [][NextStream]_vars

----------------------------------------------------------------------------
\* HttpProxyServer: text is a sequence of characters, so that what the code
\* does to a request (find, split, slices, upper, lower, strip, int) is
\* computed.  Positions are Python's: the first character is at 0, find
\* returns -1 when there is no match, s[a:b] is Slice(s, a, b).

\* s[a:b] and s[a:] for 0 <= a
Slice(s, a, b) == SubSeq(s, a + 1, Min(b, Len(s)))
From(s, a)     == SubSeq(s, a + 1, Len(s))

\* s.startswith(prefix)
StartsWith(s, prefix) ==
    Len(prefix) <= Len(s) /\ SubSeq(s, 1, Len(prefix)) = prefix

\* the positions where sub occurs in s
Occurrences(s, sub) ==
    {i \in 0..(Len(s) - Len(sub)) : Slice(s, i, i + Len(sub)) = sub}

\* s.find(sub), s.rfind(sub), sub in s
find(s, sub) ==
    IF Occurrences(s, sub) = {} THEN -1
    ELSE CHOOSE i \in Occurrences(s, sub) : \A j \in Occurrences(s, sub) : i <= j
rfind(s, sub) ==
    IF Occurrences(s, sub) = {} THEN -1
    ELSE CHOOSE i \in Occurrences(s, sub) : \A j \in Occurrences(s, sub) : j <= i
In(sub, s) == Occurrences(s, sub) # {}

\* the characters str.split() and str.strip() take as white space
Whitespace == {" ", "\t", "\r", "\n", "\f"}

\* s.strip()
RECURSIVE lstrip(_)
lstrip(s) == IF s # <<>> /\ Head(s) \in Whitespace THEN lstrip(Tail(s)) ELSE s
RECURSIVE rstrip(_)
rstrip(s) == IF s # <<>> /\ s[Len(s)] \in Whitespace
               THEN rstrip(SubSeq(s, 1, Len(s) - 1)) ELSE s
strip(s) == rstrip(lstrip(s))

\* s.split(): the runs of characters that are not white space
RECURSIVE split(_)
split(s) ==
    LET t == lstrip(s)
        stops == {i \in 1..Len(t) : t[i] \in Whitespace}
        n == IF stops = {} THEN Len(t) + 1
             ELSE CHOOSE i \in stops : \A j \in stops : i <= j
    IN  IF t = <<>> THEN <<>>
        ELSE <<SubSeq(t, 1, n - 1)>> \o split(SubSeq(t, n, Len(t)))

\* s.split(sep, maxsplit) for a separator of one or more characters
RECURSIVE splitSep(_, _, _)
splitSep(s, sep, maxsplit) ==
    IF maxsplit = 0 \/ find(s, sep) = -1 THEN <<s>>
    ELSE <<Slice(s, 0, find(s, sep))>>
         \o splitSep(From(s, find(s, sep) + Len(sep)), sep, maxsplit - 1)

\* s.rsplit(":", 1) when ":" occurs in s
rsplit1(s, sep) == <<Slice(s, 0, rfind(s, sep)), From(s, rfind(s, sep) + Len(sep))>>

\* s.upper() and s.lower() on the letters that requests are written with
Letters == <<<<"a", "A">>, <<"c", "C">>, <<"e", "E">>, <<"g", "G">>,
             <<"h", "H">>, <<"n", "N">>, <<"o", "O">>, <<"p", "P">>,
             <<"s", "S">>, <<"t", "T">>, <<"x", "X">>>>
upperChar(c) ==
    IF \E i \in 1..Len(Letters) : Letters[i][1] = c
      THEN Letters[CHOOSE i \in 1..Len(Letters) : Letters[i][1] = c][2] ELSE c
lowerLetter(c) ==
    IF \E i \in 1..Len(Letters) : Letters[i][2] = c
      THEN Letters[CHOOSE i \in 1..Len(Letters) : Letters[i][2] = c][1] ELSE c
upper(s) == [i \in 1..Len(s) |-> upperChar(s[i])]
lowerText(s) == [i \in 1..Len(s) |-> lowerLetter(s[i])]

\* int(s): white space around, a sign, then digits with single underscores
\* between them; anything else raises ValueError
Digits == <<"0", "1", "2", "3", "4", "5", "6", "7", "8", "9">>
IsDigit(c) == \E d \in 1..10 : Digits[d] = c
DigitVal(c) == (CHOOSE d \in 1..10 : Digits[d] = c) - 1
Unsigned(s) ==
    LET t == strip(s)
    IN  IF t # <<>> /\ Head(t) \in {"+", "-"} THEN Tail(t) ELSE t
IsInt(s) ==
    LET u == Unsigned(s)
    IN  /\ u # <<>>
        /\ IsDigit(u[1]) /\ IsDigit(u[Len(u)])
        /\ \A i \in 1..Len(u) : IsDigit(u[i]) \/ u[i] = "_"
        /\ \A i \in 1..(Len(u) - 1) : ~(u[i] = "_" /\ u[i + 1] = "_")
RECURSIVE Magnitude(_)
Magnitude(u) ==
    IF u = <<>> THEN 0
    ELSE IF u[Len(u)] = "_" THEN Magnitude(SubSeq(u, 1, Len(u) - 1))
    ELSE 10 * Magnitude(SubSeq(u, 1, Len(u) - 1)) + DigitVal(u[Len(u)])
int(s) ==
    IF strip(s) # <<>> /\ Head(strip(s)) = "-"
      THEN 0 - Magnitude(Unsigned(s)) ELSE Magnitude(Unsigned(s))

\* HttpProxyServer._parse_host_port(addr, default_port): <<host, port>>
_parse_host_port_hostOnError(addr, default_port) ==
    LET bracket_end == find(addr, <<"]">>)
        host == Slice(addr, 1, bracket_end)
        rest == From(addr, bracket_end + 1)
        parts == rsplit1(addr, <<":">>)
    IN  IF StartsWith(addr, <<"[">>)
          THEN IF bracket_end = -1 THEN <<From(addr, 1), default_port>>
               ELSE IF StartsWith(rest, <<":">>)
                 THEN IF IsInt(From(rest, 1)) THEN <<host, int(From(rest, 1))>>
                      ELSE <<host, default_port>>
               ELSE <<host, default_port>>
        ELSE IF In(<<":">>, addr)
          THEN IF IsInt(parts[2]) THEN <<parts[1], int(parts[2])>>
               ELSE <<parts[1], default_port>>
        ELSE <<addr, default_port>>
_parse_host_port(addr, default_port) ==
    LET bracket_end == find(addr, <<"]">>)
        host == Slice(addr, 1, bracket_end)
        rest == From(addr, bracket_end + 1)
        parts == rsplit1(addr, <<":">>)
    IN  IF StartsWith(addr, <<"[">>)
          THEN IF bracket_end = -1 THEN <<From(addr, 1), default_port>>
               ELSE IF StartsWith(rest, <<":">>)
                 THEN IF IsInt(From(rest, 1)) THEN <<host, int(From(rest, 1))>>
                      ELSE <<host, default_port>>
               ELSE <<host, default_port>>
        ELSE IF In(<<":">>, addr)
          THEN IF IsInt(parts[2]) THEN <<parts[1], int(parts[2])>>
               ELSE <<addr, default_port>>
        ELSE <<addr, default_port>>

\* ---- one client of the HTTP proxy, from accept to the end of its handler

\* what requests are written with
GET     == <<"G", "E", "T">>
CONNECT == <<"C", "O", "N", "N", "E", "C", "T">>
HTTP11  == <<"H", "T", "T", "P", "/", "1", ".", "1">>
Scheme  == <<"h", "t", "t", "p", ":", "/", "/">>
CRLF    == <<"\r", "\n">>
Methods == {GET, CONNECT}
Separators  == {<<" ">>, <<" ", " ">>, <<"\t">>}
Authorities == {<<"h">>, <<"h", ":", "8">>, <<>>}
Paths       == {<<>>, <<"/", "p">>}
Targets ==
    {Scheme \o a \o p : a \in Authorities, p \in Paths}
    \cup {<<"/", "p">>, <<"h", ":", "4">>, <<":", "4">>, <<>>}
HeaderBlocks ==
    {<<>>, <<"H", "o", "s", "t", ":", " ", "h">> \o CRLF,
           <<"h", "o", "s", "t", ":", "h", ":", "8">> \o CRLF}
Bodies == {<<>>, <<"x", "y">>}

\* what the origin answers, and the answers of the proxy itself
OriginText == <<"o", "k">>
BadRequest  == "HTTP/1.1 400 Bad Request\r\n\r\n"
BadGateway  == "HTTP/1.1 502 Bad Gateway\r\n\r\n"
Established == "HTTP/1.1 200 Connection Established\r\n\r\n"

\* `if not host`: host is None or ""; both are the empty text here
NotHost_never(h) == FALSE
NotHost(h) == h = <<>>

\* _handle_http, lines 147-166: host, port and path of a request that is not
\* a CONNECT
RECURSIVE HostHeader(_)
HostHeader(lines) ==
    IF lines = <<>> THEN <<<<>>, 80>>
    ELSE IF StartsWith(lowerText(Head(lines)), <<"h", "o", "s", "t", ":">>)
      THEN _parse_host_port(strip(splitSep(Head(lines), <<":">>, 1)[2]), 80)
    ELSE HostHeader(Tail(lines))
HttpTarget(target, buf) ==
    LET url_rest  == From(target, 7)
        slash_pos == find(url_rest, <<"/">>)
        host_part == IF slash_pos = -1 THEN url_rest ELSE Slice(url_rest, 0, slash_pos)
        hp == IF StartsWith(target, Scheme)
                THEN _parse_host_port(host_part, 80)
                ELSE HostHeader(splitSep(buf, CRLF, Len(buf)))
    IN  [host |-> hp[1], port |-> hp[2],
         path |-> IF ~StartsWith(target, Scheme) THEN target
                  ELSE IF slash_pos = -1 THEN <<"/">>
                  ELSE From(url_rest, slash_pos)]

\* _handle_http, lines 179-183: parts, whether parts[2] raises IndexError,
\* and the rewritten preface
RequestParts(buf) == splitSep(Slice(buf, 0, find(buf, CRLF)), <<" ">>, 2)
RewriteRaises(buf) == Len(RequestParts(buf)) < 3
Rewrite(buf, newpath) ==
    LET first_line_end == find(buf, CRLF)
        parts == RequestParts(buf)
    IN  parts[1] \o <<" ">> \o newpath \o <<" ">> \o parts[3]
        \o From(buf, first_line_end)

\* `if len(resp) < 2 or resp[1] != 0x00` on the answer to the CONNECT request
ReplyRefused_lengthOnly(resp) == Len(resp) < 2
ReplyRefused(resp) == Len(resp) < 2 \/ resp[2] # 0

\* _connect_via_socks5, lines 219-234: how many more bytes of the reply are
\* asked for after resp = sock.recv(10)
Remaining(resp) ==
    IF Len(resp) < 4 THEN 0
    ELSE CASE resp[4] = 1 -> 4 + 2 - (Len(resp) - 4)
           [] resp[4] = 3 -> IF Len(resp) > 4 THEN 1 + resp[5] + 2 - (Len(resp) - 4) ELSE 1
           [] resp[4] = 4 -> 16 + 2 - (Len(resp) - 4)
           [] OTHER       -> 0

\* _connect_via_socks5(host, port) against a SOCKS5 server that accepts the
\* TCP connection or not, answers the greeting with `method`, answers the
\* request with `reply` of which recv(10) returns the first k bytes and the
\* second recv at most `more`.  The result is the socket ("open") or None ("none"),
\* and the bytes of the reply left unread on the socket.
_connect_via_socks5(h, p, connected, method, reply, k, more) ==
    LET resp == Take(reply, k)
        read == Min(k + Min(more, Remaining(resp)), Len(reply))
    IN  IF ~connected \/ method # <<5, 0>> THEN [sock |-> "none", unread |-> <<>>]
        ELSE IF Len(h) > 255 \/ p \notin 0..65535 THEN [sock |-> "none", unread |-> <<>>]
        ELSE IF ReplyRefused(resp) THEN [sock |-> "none", unread |-> <<>>]
        ELSE [sock |-> "open",
              unread |-> IF Remaining(resp) > 0 THEN Drop(reply, read)
                         ELSE Drop(reply, k)]

\* what the local SOCKS5 server answers to the greeting and to the request,
\* and how its answers reach the dialling socket
MethodAnswers == {<<5, 0>>, <<5, 255>>, <<5>>, <<>>}
ReplyAnswers  == {Reply(0), Reply(5), <<>>}
ShortReads    == {1, 4, 10}

httpio   == <<hwire, initial_data>>
locals   == <<rkind, rhost, rport, rpath>>
counters == <<_bytes_up, _bytes_down, _active, _total>>
outputs  == <<dials, answers, toRemote, toClient>>

\* HttpProxyServer.start() has returned, accept() has returned a client
\* that writes `hreq`, and a thread runs _handle_client for it
HttpInit ==
    /\ \E m \in Methods, s \in Separators, t \in Targets,
          h \in HeaderBlocks, b \in Bodies :
         hreq = m \o s \o t \o <<" ">> \o HTTP11 \o CRLF \o h \o CRLF \o b
    /\ hwire = hreq /\ initial_data = <<>> /\ ppc = "p_entry"
    /\ rkind = "none" /\ rhost = <<>> /\ rport = 0 /\ rpath = <<>>
    /\ remote = "none" /\ hclient = "open" /\ horigin = <<>>
    /\ dials = <<>> /\ answers = <<>> /\ toRemote = <<>> /\ toClient = <<>>
    /\ _running = TRUE
    /\ _bytes_up = 0 /\ _bytes_down = 0 /\ _active = 0 /\ _total = 0
    /\ pexc = "none"

\* with self._lock: self._active += 1; self._total += 1
ProxyEntry ==
    /\ ppc = "p_entry"
    /\ _active' = _active + 1
    /\ _total' = _total + 1
    /\ ppc' = "p_line"
    /\ UNCHANGED <<manager, argsv, socksv, notHttp, hreq, httpio, locals, remote,
                   hclient, horigin, outputs, _running, _bytes_up, _bytes_down, pexc>>

\* The client's bytes reach the proxy in pieces that end after the first
\* byte, at the end of a line, before the last byte or at the last byte:
\* the sizes a recv can return when `left` bytes are still to come
Pieces(whole, left) ==
    {n \in 1..Len(left) :
        LET i == Len(whole) - Len(left) + n
        IN  \/ i \in {1, Len(whole) - 1, Len(whole)}
            \/ (i >= 2 /\ SubSeq(whole, i - 1, i) = CRLF)}

\* chunk = client.recv(4096): the next bytes the client wrote; b"" when it
\* has closed after its last byte; socket.timeout when nothing arrives
\* within 30 s
Recv(next, atEnd) ==
    \/ /\ hwire # <<>>
       /\ \E n \in Pieces(hreq, hwire) :
            /\ initial_data' = initial_data \o Take(hwire, n)
            /\ hwire' = Drop(hwire, n)
       /\ ppc' = next
       /\ UNCHANGED pexc
    \/ /\ hwire = <<>>
       /\ ppc' = atEnd
       /\ UNCHANGED <<hwire, initial_data, pexc>>
    \/ /\ ppc' = "p_except" /\ pexc' = "socket.timeout"
       /\ UNCHANGED <<hwire, initial_data>>

\* while b"\r\n" not in initial_data and len(initial_data) < 65536: chunk = client.recv(4096);
\* if not chunk: return; initial_data += chunk
ReadLine ==
    /\ ppc = "p_line" /\ ~In(CRLF, initial_data)
    /\ Recv("p_line", "p_finally")
    /\ UNCHANGED <<manager, argsv, socksv, notHttp, hreq, locals, remote, hclient,
                   horigin, outputs, _running, counters>>

\* first_line = initial_data.split(b"\r\n", 1)[0]; parts = first_line.split();
\* if len(parts) < 3: return; method = parts[0].upper(); target = parts[1];
\* then the first lines of _handle_connect (120-123) or _handle_http (147-170)
ParseRequest ==
    /\ ppc = "p_line" /\ In(CRLF, initial_data)
    /\ LET first_line == splitSep(initial_data, CRLF, 1)[1]
           parts  == split(first_line)
           method == upper(parts[1])
           target == parts[2]
           c == _parse_host_port(target, 443)
           t == HttpTarget(target, initial_data)
       IN  IF Len(parts) < 3
             THEN ppc' = "p_finally" /\ UNCHANGED <<locals, answers>>
           ELSE IF method = CONNECT
             THEN /\ rkind' = "connect" /\ rhost' = c[1] /\ rport' = c[2]
                  /\ UNCHANGED rpath
                  /\ IF NotHost(c[1])
                       THEN answers' = Append(answers, BadRequest) /\ ppc' = "p_finally"
                       ELSE UNCHANGED answers /\ ppc' = "p_head"
             ELSE /\ rkind' = "http" /\ rhost' = t.host /\ rport' = t.port
                  /\ rpath' = t.path
                  /\ IF NotHost(t.host)
                       THEN answers' = Append(answers, BadRequest) /\ ppc' = "p_finally"
                       ELSE UNCHANGED answers /\ ppc' = "p_dial"
    /\ UNCHANGED <<manager, argsv, socksv, notHttp, hreq, httpio, remote, hclient,
                   horigin, dials, toRemote, toClient, _running, counters, pexc>>

\* while b"\r\n\r\n" not in initial_data: chunk = client.recv(4096);
\* if not chunk: return; initial_data += chunk
ReadHead ==
    /\ ppc = "p_head"
    /\ IF In(CRLF \o CRLF, initial_data)
         THEN ppc' = "p_dial" /\ UNCHANGED <<hwire, initial_data, pexc>>
         ELSE Recv("p_head", "p_finally")
    /\ UNCHANGED <<manager, argsv, socksv, notHttp, hreq, locals, remote, hclient,
                   horigin, outputs, _running, counters>>

\* remote = self._connect_via_socks5(rhost, rport)
Dial ==
    /\ ppc = "p_dial"
    /\ \E connected \in BOOLEAN, method \in MethodAnswers, reply \in ReplyAnswers,
          k \in ShortReads, more \in {4, 6} :
         LET r == _connect_via_socks5(rhost, rport, connected, method, reply, k, more)
         IN  /\ remote' = r.sock
             /\ horigin' = IF r.sock = "none" THEN <<>> ELSE r.unread \o OriginText
             /\ dials' = Append(dials, [host |-> rhost, port |-> rport,
                                        connected |-> connected,
                                        method |-> method, reply |-> reply,
                                        ok |-> r.sock # "none"])
    /\ ppc' = "p_answer"
    /\ UNCHANGED <<manager, argsv, socksv, notHttp, hreq, httpio, locals, hclient,
                   answers, toRemote, toClient, _running, counters, pexc>>

\* if remote is None: client.sendall(502); return
\* _handle_connect: client.sendall(200), then self._relay(client, remote)
\* _handle_http: rewritten = ...; remote.sendall(rewritten);
\*   self._bytes_up += len(rewritten), then self._relay(client, remote)
\* (parts[2] raises IndexError; a sendall that fails part of the way raises
\* OSError)
Answer ==
    /\ ppc = "p_answer"
    /\ IF remote = "none"
         THEN /\ answers' = Append(answers, BadGateway)
              /\ ppc' = "p_finally"
              /\ UNCHANGED <<toRemote, _bytes_up, pexc>>
       ELSE IF rkind = "connect"
         THEN /\ answers' = Append(answers, Established)
              /\ ppc' = "p_relay"
              /\ UNCHANGED <<toRemote, _bytes_up, pexc>>
       ELSE LET rewritten == Rewrite(initial_data, rpath)
            IN  /\ UNCHANGED answers
                /\ IF RewriteRaises(initial_data)
                     THEN /\ ppc' = "p_except" /\ pexc' = "IndexError"
                          /\ UNCHANGED <<toRemote, _bytes_up>>
                     ELSE \E n \in {0, Len(rewritten)} :
                            /\ toRemote' = toRemote \o Take(rewritten, n)
                            /\ IF n = Len(rewritten)
                                 THEN /\ _bytes_up' = _bytes_up + Len(rewritten)
                                      /\ ppc' = "p_relay"
                                      /\ UNCHANGED pexc
                                 ELSE /\ ppc' = "p_except" /\ pexc' = "OSError"
                                      /\ UNCHANGED _bytes_up
    /\ UNCHANGED <<manager, argsv, socksv, notHttp, hreq, httpio, locals, remote,
                   hclient, horigin, dials, toClient, _running, _bytes_down,
                   _active, _total>>

\* the loop test of _relay: `while self._running`
WhileRunning_forever(flag) == TRUE
WhileRunning(flag) == flag

\* _relay: while self._running:
RelayLoop ==
    /\ ppc = "p_relay"
    /\ ppc' = IF WhileRunning(_running) THEN "p_select" ELSE "p_close"
    /\ UNCHANGED <<manager, argsv, socksv, notHttp, hreq, httpio, locals, remote,
                   hclient, horigin, outputs, _running, counters, pexc>>

\* if client in r: initial_data = client.recv(65536); remote.sendall(initial_data);
\* self._bytes_up += len(initial_data)   (a sendall that raises: except: pass)
RelayFromClient ==
    /\ ppc = "p_select" /\ hwire # <<>>
    /\ \E n \in Pieces(hreq, hwire), sentn \in 0..Len(hwire) :
         /\ sentn \in {n - 1, n}
         /\ hwire' = Drop(hwire, n)
         /\ toRemote' = toRemote \o Take(hwire, sentn)
         /\ IF sentn = n
              THEN _bytes_up' = _bytes_up + n /\ ppc' = "p_relay"
              ELSE UNCHANGED _bytes_up /\ ppc' = "p_close"
    /\ UNCHANGED <<manager, argsv, socksv, notHttp, hreq, initial_data, locals, remote,
                   hclient, horigin, dials, answers, toClient, _running,
                   _bytes_down, _active, _total, pexc>>

\* if remote in r: initial_data = remote.recv(65536); client.sendall(initial_data);
\* self._bytes_down += len(initial_data)
RelayFromRemote ==
    /\ ppc = "p_select" /\ horigin # <<>>
    /\ \E n \in 1..Len(horigin) :
         /\ horigin' = Drop(horigin, n)
         /\ toClient' = toClient \o Take(horigin, n)
         /\ _bytes_down' = _bytes_down + n
    /\ ppc' = "p_relay"
    /\ UNCHANGED <<manager, argsv, socksv, notHttp, hreq, httpio, locals, remote,
                   hclient, dials, answers, toRemote, _running, _bytes_up,
                   _active, _total, pexc>>

\* select returns nothing within 2 s (next turn); or recv returns b"" on a
\* side that has closed (break), or a call raises (except: pass)
RelayIdle ==
    /\ ppc = "p_select"
    /\ \E over \in BOOLEAN : ppc' = IF over THEN "p_close" ELSE "p_relay"
    /\ UNCHANGED <<manager, argsv, socksv, notHttp, hreq, httpio, locals, remote,
                   hclient, horigin, outputs, _running, counters, pexc>>

\* socket.close() called on a socket in state s: a call on a socket that is
\* not open finds it closed already
Close_nothing(s) == s
Close(s) == IF s = "open" THEN "closed" ELSE "closed_again"

\* _relay: finally: remote.close()
RelayFinally ==
    /\ ppc = "p_close"
    /\ remote' = Close(remote)
    /\ ppc' = "p_finally"
    /\ UNCHANGED <<manager, argsv, socksv, notHttp, hreq, httpio, locals,
                   hclient, horigin, outputs, _running, counters, pexc>>

\* the exceptions `except Exception as e` catches: every one the calls of
\* the handler raise
Catches_socketErrors(e) == e \in {"socket.timeout", "OSError"}
Catches(e) == e \in {"socket.timeout", "OSError", "IndexError"}

\* except Exception as e: logger.debug(...)
ProxyExcept ==
    /\ ppc = "p_except"
    /\ pexc' = IF Catches(pexc) THEN "none" ELSE pexc
    /\ ppc' = "p_finally"
    /\ UNCHANGED <<manager, argsv, socksv, notHttp, hreq, httpio, locals, remote,
                   hclient, horigin, outputs, _running, counters>>

\* finally: client.close(); with self._lock: self._active -= 1
\* then the thread ends, with the exception that was not caught if any
ProxyFinally ==
    /\ ppc = "p_finally"
    /\ hclient' = Close(hclient)
    /\ _active' = _active - 1
    /\ ppc' = IF pexc = "none" THEN "p_done" ELSE "p_escaped"
    /\ UNCHANGED <<manager, argsv, socksv, notHttp, hreq, httpio, locals, remote,
                   horigin, outputs, _running, _bytes_up, _bytes_down, _total, pexc>>

\* HttpProxyServer.stop(): self._running = False.  The handler reads the
\* flag only in the loop test of _relay, so a stop() before the relay is
\* the same to it as one at the start of the relay.
ProxyStop ==
    /\ _running /\ ppc \in {"p_relay", "p_select"}
    /\ _running' = FALSE
    /\ UNCHANGED <<manager, argsv, socksv, notHttp, hreq, httpio, locals, remote,
                   hclient, horigin, outputs, ppc, counters, pexc>>

NextHttp ==
    \/ ProxyEntry
    \/ ReadLine
    \/ ParseRequest
    \/ ReadHead
    \/ Dial
    \/ Answer
    \/ RelayLoop
    \/ RelayFromClient
    \/ RelayFromRemote
    \/ RelayIdle
    \/ RelayFinally
    \/ ProxyExcept
    \/ ProxyFinally
    \/ ProxyStop

\* a step of the handler thread from the loop test of its relay to its end
RelayStep ==
    \/ RelayLoop
    \/ RelayFromClient
    \/ RelayFromRemote
    \/ RelayIdle
    \/ RelayFinally
    \/ ProxyExcept
    \/ ProxyFinally

\* one client of the HTTP proxy from accept to the end of its handler
HttpSpecInit ==
    ManagerInit /\ ArgsOff /\ SocksOff /\ StreamOff /\ HttpInit /\ ParseOff /\ StatsOff
HttpSpec == HttpSpecInit /\ [][NextHttp]_vars

\* The handler thread is scheduled: once it is in its relay every call it
\* makes returns or raises (select after at most 2 s, the sockets of the
\* relay do not block), so while it has not ended it eventually takes its
\* next step.  Nothing forces stop() to be called.
FairHttpSpec == HttpSpec /\ WF_vars(RelayStep)

----------------------------------------------------------------------------
\* HttpProxyServer._parse_host_port on its own: every text of up to MaxAddr
\* characters over an alphabet with the bracket, the colon, a letter, a
\* digit and a sign

MaxAddr == 4
AddrChars == {"[", "]", ":", "h", "8", "-"}
DefaultPorts == {80, 443}

\* a caller is about to call _parse_host_port(parse_in, parse_default)
ParseInit ==
    /\ \E n \in 0..MaxAddr : parse_in \in [1..n -> AddrChars]
    /\ parse_default \in DefaultPorts
    /\ parse_out = <<>>

\* the call returns
ParseCall ==
    /\ parse_out = <<>>
    /\ parse_out' = _parse_host_port(parse_in, parse_default)
    /\ UNCHANGED <<manager, argsv, socksv, notParse, parse_in, parse_default>>

NextParse == ParseCall

ParseSpecInit ==
    ManagerInit /\ ArgsOff /\ SocksOff /\ StreamOff /\ HttpOff /\ ParseInit /\ StatsOff
ParseSpec == ParseSpecInit /\ [][NextParse]_vars

----------------------------------------------------------------------------
\* The handler threads of one HttpProxyServer: each thread the accept loop
\* starts runs _handle_client, whose first and last statements update
\* _active and _total inside `with self._lock`; another thread calls
\* get_stats().  A `+= 1` is a load followed by a store.

NHandlers == 2
Handlers == 1..NHandlers
\* the thread that calls get_stats()
Reader == NHandlers + 1

\* threading.Lock: acquire() goes through when no thread holds the lock
Free_always(l) == TRUE
Free(l) == l = 0

\* what is left of HttpProxyServer and of the one handler followed above
httpRest == <<hreq, httpio, locals, remote, hclient, horigin, outputs, ppc, pexc,
              _running>>

\* get_stats(): the dict it returns
get_stats ==
    [bytes_up |-> _bytes_up, bytes_down |-> _bytes_down,
     active |-> _active, total |-> _total]

\* HttpProxyServer.start() has returned and no client has connected yet
StatsInit ==
    /\ HttpIdle /\ _running = TRUE
    /\ threads = [i \in Handlers |-> "t_none"]
    /\ _lock = 0
    /\ loaded = [i \in Handlers |-> 0]
    /\ gpc = "g_idle"
    /\ seen = get_stats

\* _accept_loop: client, addr = self._server.accept();
\* threading.Thread(target=self._handle_client, args=(client,)).start()
Accept(i) ==
    /\ _running /\ threads[i] = "t_none"
    /\ threads' = [threads EXCEPT ![i] = "t_start"]
    /\ UNCHANGED <<manager, argsv, socksv, notStats, httpRest, counters,
                   _lock, loaded, gpc, seen>>

\* with self._lock:   (line 83 on entry, line 115 in the finally block)
Acquire(i) ==
    /\ threads[i] \in {"t_start", "t_closed"} /\ Free(_lock)
    /\ _lock' = i
    /\ threads' = [threads EXCEPT ![i] = IF @ = "t_start" THEN "t_in1" ELSE "t_out1"]
    /\ UNCHANGED <<manager, argsv, socksv, notStats, httpRest, counters,
                   loaded, gpc, seen>>

\* the load of self._active += 1, self._total += 1, self._active -= 1
Load(i) ==
    /\ threads[i] \in {"t_in1", "t_in3", "t_out1"}
    /\ loaded' = [loaded EXCEPT ![i] = IF threads[i] = "t_in3" THEN _total ELSE _active]
    /\ threads' = [threads EXCEPT ![i] = CASE @ = "t_in1" -> "t_in2"
                                           [] @ = "t_in3" -> "t_in4"
                                           [] @ = "t_out1" -> "t_out2"]
    /\ UNCHANGED <<manager, argsv, socksv, notStats, httpRest, counters,
                   _lock, gpc, seen>>

\* the store of self._active += 1, self._total += 1, self._active -= 1
Store(i) ==
    /\ threads[i] \in {"t_in2", "t_in4", "t_out2"}
    /\ _active' = CASE threads[i] = "t_in2" -> loaded[i] + 1
                    [] threads[i] = "t_out2" -> loaded[i] - 1
                    [] OTHER -> _active
    /\ _total' = IF threads[i] = "t_in4" THEN loaded[i] + 1 ELSE _total
    /\ threads' = [threads EXCEPT ![i] = CASE @ = "t_in2" -> "t_in3"
                                           [] @ = "t_in4" -> "t_in5"
                                           [] @ = "t_out2" -> "t_out3"]
    /\ UNCHANGED <<manager, argsv, socksv, notStats, httpRest, _bytes_up, _bytes_down,
                   _lock, loaded, gpc, seen>>

\* the end of the with block: the lock is released
Release(i) ==
    /\ threads[i] \in {"t_in5", "t_out3"}
    /\ _lock' = 0
    /\ threads' = [threads EXCEPT ![i] = IF @ = "t_in5" THEN "t_body" ELSE "t_end"]
    /\ UNCHANGED <<manager, argsv, socksv, notStats, httpRest, counters,
                   loaded, gpc, seen>>

\* the try block has ended (return, exception caught, relay over):
\* finally: client.close()
ClientClosed(i) ==
    /\ threads[i] = "t_body"
    /\ threads' = [threads EXCEPT ![i] = "t_closed"]
    /\ UNCHANGED <<manager, argsv, socksv, notStats, httpRest, counters,
                   _lock, loaded, gpc, seen>>

\* get_stats(): with self._lock:
StatsAcquire ==
    /\ gpc = "g_idle" /\ Free(_lock)
    /\ _lock' = Reader
    /\ gpc' = "g_read"
    /\ UNCHANGED <<manager, argsv, socksv, notStats, httpRest, counters,
                   threads, loaded, seen>>

\* get_stats(): return {...}, which releases the lock
StatsReturn ==
    /\ gpc = "g_read"
    /\ seen' = get_stats
    /\ _lock' = 0
    /\ gpc' = "g_idle"
    /\ UNCHANGED <<manager, argsv, socksv, notStats, httpRest, counters,
                   threads, loaded>>

NextStats ==
    \/ \E i \in Handlers : Accept(i)
    \/ \E i \in Handlers : Acquire(i)
    \/ \E i \in Handlers : Load(i)
    \/ \E i \in Handlers : Store(i)
    \/ \E i \in Handlers : Release(i)
    \/ \E i \in Handlers : ClientClosed(i)
    \/ StatsAcquire
    \/ StatsReturn

StatsSpecInit ==
    ManagerInit /\ ArgsOff /\ SocksOff /\ StreamOff /\ ParseOff /\ StatsInit
StatsSpec == StatsSpecInit /\ [][NextStats]_vars

----------------------------------------------------------------------------
\* Vocabulary of the properties

ClientHeld(st)    == st \in {"open", "lost"}
ListenerBound(st) == st = "bound"

\* nothing built by call g is still up
Down(g) ==
    /\ ~ClientHeld(sshSt[g]) /\ ~ClientHeld(jumpSt[g]) /\ jchSt[g] # "open"
    /\ ~ListenerBound(socksSt[g]) /\ ~ListenerBound(httpSt[g])

\* something built by call g is up
Up(g) ==
    \/ ClientHeld(sshSt[g]) \/ ClientHeld(jumpSt[g]) \/ jchSt[g] = "open"
    \/ socksSt[g] \in {"created", "bound"} \/ httpSt[g] \in {"created", "bound"}

\* the manager references nothing
HoldsNothing ==
    /\ ssh_client = None /\ jump_client = None /\ _jump_channel = None
    /\ socks_server = None /\ http_proxy = None

\* the tunnel of the last successful connect() lost a transport
TransportLost ==
    /\ ssh_client # None
    /\ \/ sshSt[ssh_client] = "lost"
       \/ use_jump[ssh_client] /\ jumpSt[ssh_client] = "lost"

----------------------------------------------------------------------------
C2_LossLeadsToDisconnected ==
    (is_connected /\ TransportLost)
        ~> (~is_connected /\ lastNotify[2] = "disconnected")

\* C2 witness: the monitor noticed the loss of the jump transport and
\* delivered "disconnected"; the user made no call after connect().
C2_Witness ==
    /\ lastNotify = <<"connected", "disconnected", "monitor">>
    /\ ~is_connected /\ uop = "none" /\ prevOp = "connect_ok"
    /\ ssh_client # None /\ sshSt[ssh_client] = "open" /\ jumpSt[ssh_client] = "lost"

\* C3: after the monitor made the manager Disconnected, with no call by the
\* user since connect() returned, both listeners and the SSH clients are closed.
C3_MonitorRunsTeardown ==
    (/\ lastNotify[3] = "monitor" /\ ~_connected
     /\ uop = "none" /\ prevOp = "connect_ok")
        => \A g \in Gens : Down(g)

\* C4: when connect() raises because a setup step failed, the manager is
\* Disconnected, no listener is left bound and no SSH client is left open.
C4_FailedConnectTornDown ==
    (upc = "idle" /\ prevOp = "connect_raised")
        => ~is_connected /\ \A g \in Gens : Down(g)

\* C5: after disconnect() returns, no listener is bound and the manager holds
\* no SSH client, jump client or jump channel.
C5_AfterDisconnect ==
    (\/ upc = "idle" /\ prevOp = "disconnect"
     \/ uop = "connect" /\ upc = SshPhase(use_jump[gen]))
        => /\ HoldsNothing
           /\ \A g \in Gens : ~ListenerBound(socksSt[g]) /\ ~ListenerBound(httpSt[g])

\* C5 witness: disconnect() returned to the user after a tunnel that had been
\* Connected with a jump host, its listeners now closed.
C5_Witness ==
    /\ upc = "idle" /\ prevOp = "disconnect"
    /\ \E g \in established :
         use_jump[g] /\ socksSt[g] = "closed" /\ httpSt[g] = "closed"

\* C6: a disconnect() issued right after a disconnect() changes no manager
\* field and invokes no sink.
C6_SecondDisconnectNoOp ==
    [][(uop = "disconnect" /\ prevOp = "disconnect" /\ upc' # upc)
          => (fields' = fields /\ emitted' = emitted /\ lastNotify' = lastNotify)]_vars

\* C7: while anything of a later connect() is up, everything of an earlier
\* tunnel that had been brought up is closed.
C7_OneTunnel ==
    \A g \in established : \A h \in Gens : (h > g /\ Up(h)) => Down(g)

\* C7 witness: the second connect() has its SSH session open, after a first
\* tunnel had been Connected.
C7_Witness ==
    \E g \in established : \E h \in Gens : h > g /\ sshSt[h] = "open"

\* the transitions of the status state machine
AllowedTransitions ==
    { <<"disconnected", "connecting">>, <<"connecting", "connected">>,
      <<"connecting", "disconnected">>, <<"connected", "disconnected">> }

\* C8: every delivery to on_status_changed that changes the kind follows a
\* transition of the state machine; in particular "connected" is delivered
\* right after "connecting".
C8_StatusTransitions ==
    (lastNotify[3] # "init" /\ lastNotify[1] # lastNotify[2])
        => <<lastNotify[1], lastNotify[2]>> \in AllowedTransitions

\* C9: in connect() the jump session precedes the target session, the SSH
\* session(s) precede the SOCKS5 bind, the SOCKS5 bind precedes the HTTP
\* bind, and Connected / "connected" comes only once all three are up.
C9_StartupOrder ==
    [][/\ \A g \in Gens :
            /\ (sshSt[g] = "none" /\ sshSt'[g] = "open" /\ use_jump[g])
                  => (jumpSt[g] = "open" /\ jchSt[g] = "open")
            /\ (~ListenerBound(socksSt[g]) /\ ListenerBound(socksSt'[g]))
                  => (/\ ClientHeld(sshSt[g]) /\ ~ListenerBound(httpSt[g])
                      /\ use_jump[g] => ClientHeld(jumpSt[g]))
            /\ (~ListenerBound(httpSt[g]) /\ ListenerBound(httpSt'[g]))
                  => (ClientHeld(sshSt[g]) /\ ListenerBound(socksSt[g]))
       /\ ((~_connected /\ _connected') \/ (status # "connected" /\ status' = "connected"))
             => (/\ ssh_client = gen /\ ClientHeld(sshSt[gen])
                 /\ socks_server = gen /\ ListenerBound(socksSt[gen])
                 /\ http_proxy = gen /\ ListenerBound(httpSt[gen])
                 /\ use_jump[gen] => ClientHeld(jumpSt[gen]))
      ]_vars

\* C9 witness: a connect() through a jump host has just become Connected.
C9_Witness ==
    /\ upc = "c_monitor" /\ use_jump[gen] /\ _connected /\ status = "connected"

\* C10: in disconnect() the HTTP listener is stopped before the SOCKS5
\* listener, the SOCKS5 listener before the target SSH client is closed, and
\* the target SSH client before the jump SSH client is closed.
C10_TeardownOrder ==
    [][\A g \in Gens :
          /\ (socksSt[g] # "closed" /\ socksSt'[g] = "closed")
                => (http_proxy = None /\ ~ListenerBound(httpSt[g]))
          /\ (sshSt[g] # "closed" /\ sshSt'[g] = "closed")
                => (/\ socks_server = None /\ ~ListenerBound(socksSt[g])
                    /\ http_proxy = None /\ ~ListenerBound(httpSt[g]))
          /\ (jumpSt[g] # "closed" /\ jumpSt'[g] = "closed")
                => (ssh_client = None /\ ~ClientHeld(sshSt[g]))
      ]_vars

\* C10 witness: disconnect() of a jump tunnel has stopped both listeners and
\* closed the target client, and is about to close the jump client.
C10_Witness ==
    /\ upc = "d_jump" /\ jump_client # None /\ ClientHeld(jumpSt[jump_client])
    /\ sshSt[jump_client] = "closed"
    /\ socksSt[jump_client] = "closed" /\ httpSt[jump_client] = "closed"

\* the handler followed is in _relay_python
Relaying == hpc \in {"r_test", "r_select"}

\* C11: when disconnect() closes the target SSH client, the channel of a
\* handler that is still relaying (in _relay_python) has already been closed.
C11_ChannelsClosedBeforeSsh ==
    [][(transport = "active" /\ transport' = "closed")
          => ~(Relaying /\ chan = "open")]_vars

\* C12: when connect() raises because the credential checks rejected the
\* configuration, the call has delivered nothing to the status sink (and no
\* SSH connection was attempted, the tunnel and is_connected are as before).
C12_ConfigErrorNoSideEffect ==
    (upc = "idle" /\ prevOp = "connect_rejected") => ~emitted

\* the call followed with its arguments has returned or raised
Finished == apc \in {"a_done", "a_raised"}

\* connect() raised `id` about `hop` before any network action
RejectedWith(id, hop) ==
    /\ apc = "a_raised" /\ ~began /\ calls = <<>>
    /\ exc.msg.id = id /\ hop \in exc.msg.names

\* connect() raised about the key of `hop` before any network action
Rejected(hop) ==
    /\ apc = "a_raised" /\ ~began /\ calls = <<>>
    /\ hop \in exc.msg.names

\* the key path the jump login uses
JumpKeyPath ==
    IF args.jump_key_path # NoPath THEN args.jump_key_path ELSE args.key_path

\* C13 (as stated): for every key path ending in .pub passed to connect with
\* key login selected, connect fails with the public-key(.pub) message
\* before any network action.
C13_PubPathRejected ==
    (Finished /\ args.use_key /\ endswith(args.key_path, DotPub))
        => RejectedWith("key_is_pub", "target")

\* what the preflight does with the key file at `path` of a hop that
\* selected key login, when the file exists; `earlier` is a rejection that
\* precedes this hop's check
Preflight(hop, path, earlier) ==
    LET head == fs[path].head
        pub  == endswith(lower(path), DotPub)
        ppk  == contains(head, PuTTYMarker)
        priv == \E h \in PrivateHeaders : contains(head, h)
        text == \E x \in PublicPrefixes : startswith(head, x)
    IN  /\ pub => (RejectedWith("key_is_pub", hop) \/ earlier)
        /\ (~pub /\ fs[path].readable /\ ppk)
              => (RejectedWith("key_is_ppk", hop) \/ earlier)
        /\ (~pub /\ fs[path].readable /\ ~ppk /\ priv) => ~Rejected(hop)
        /\ (~pub /\ fs[path].readable /\ ~ppk /\ ~priv /\ text)
              => (RejectedWith("key_is_public_text", hop) \/ earlier)

\* C13 (amended): for a hop that selected key login and whose key file
\* exists, connect fails before any network action with the public-key(.pub)
\* message when the path ends in .pub (in any letter case), with the PuTTY
\* message when the first 256 bytes of the file contain the PuTTY marker,
\* and with the public-key-text message when they start with ssh- or ecdsa-
\* and contain no private-key header; a file whose first 256 bytes contain an
\* OpenSSH/RSA/EC/DSA private-key header and no PuTTY marker passes the
\* preflight.  The jump's key is checked only once the target's has passed.
\* A key path is not looked at when password login is selected, and a path
\* that names no file is reported as a missing key file, whatever its ending.
C13_Preflight ==
    Finished =>
        /\ (args.use_key /\ args.key_path # NoPath /\ exists(args.key_path))
              => Preflight("target", args.key_path, FALSE)
        /\ (args.use_jump /\ args.jump_use_key
              /\ JumpKeyPath # NoPath /\ exists(JumpKeyPath))
              => Preflight("jump", JumpKeyPath, Rejected("target"))
        /\ (args.use_key /\ args.key_path # NoPath /\ ~exists(args.key_path))
              => RejectedWith("key_missing", "target")
        /\ (args.use_jump /\ args.jump_use_key
              /\ JumpKeyPath # NoPath /\ ~exists(JumpKeyPath))
              => (RejectedWith("key_missing", "jump") \/ Rejected("target"))
        /\ ~args.use_key => ~Rejected("target")
        /\ ~(args.use_jump /\ args.jump_use_key) => ~Rejected("jump")

\* C13 witness: the jump's key path K.PUB was rejected as a public key after
\* the target's key passed the preflight.
C13_Witness ==
    /\ RejectedWith("key_is_pub", "jump")
    /\ args.use_key /\ args.jump_key_path = UpperPath

\* C14: every login uses a private key iff the flag of its hop is set
\* (use_key for the target, jump_use_key for the jump), and a password
\* otherwise, whichever of the password and key path fields are populated.
C14_ModeFollowsFlag ==
    \A i \in 1..Len(calls) :
        LET c    == calls[i]
            flag == IF c.hop = "jump" THEN args.jump_use_key ELSE args.use_key
        IN  /\ (c.kwargs.pkey # <<>>) <=> flag
            /\ (c.kwargs.password # <<>>) <=> ~flag

\* C14 witness: a jump login with a key and a target login with a password,
\* with the passwords and the key paths of both hops populated.
C14_Witness ==
    /\ Len(calls) = 2
    /\ calls[1].hop = "jump" /\ calls[1].kwargs.pkey # <<>>
    /\ calls[2].hop = "target" /\ calls[2].kwargs.password = <<"p">>
    /\ args.key_path # NoPath /\ args.jump_key_path # NoPath
    /\ args.jump_password # ""

\* C15: the jump login uses the jump's username, password and key path when
\* they are non-empty and the target's otherwise; a key path taken from the
\* target comes with the target key's passphrase.
C15_JumpFallback ==
    \A i \in 1..Len(calls) :
        LET kw == calls[i].kwargs
        IN  calls[i].hop = "jump" =>
              /\ kw.username = IF args.jump_username # ""
                                 THEN args.jump_username ELSE args.username
              /\ kw.password # <<>> =>
                    kw.password[1] = IF args.jump_password # ""
                                       THEN args.jump_password ELSE args.password
              /\ kw.pkey # <<>> =>
                    kw.pkey[1] = IF args.jump_key_path # NoPath
                                   THEN [path |-> args.jump_key_path,
                                         passphrase |-> args.jump_key_passphrase]
                                   ELSE [path |-> args.key_path,
                                         passphrase |-> args.key_passphrase]

\* the other hop / the other login mode
OtherOf(x) ==
    CASE x = "jump" -> "target" [] x = "target" -> "jump"
      [] x = "key" -> "password" [] x = "password" -> "key"

\* C16: when connect() raises because a server rejected a login, the message
\* names the hop of that login and not the other hop (a connect without a
\* jump has one hop), and names the mode of that login and not the other mode.
C16_AuthMessageNamesHopAndMode ==
    (apc = "a_raised" /\ authfail # <<>>) =>
        LET f == authfail[1]
            names == exc.msg.names
        IN  /\ OtherOf(f.hop) \notin names
            /\ f.hop \in names \/ ~args.use_jump
            /\ f.mode \in names
            /\ OtherOf(f.mode) \notin names

\* C17: in a connect through a jump, a rejected login on the target is
\* raised as a target error that names the key iff use_key and the password
\* otherwise; a rejected login on the jump is raised as a jump error.
C17_InnerHopTargetMode ==
    (apc = "a_raised" /\ authfail # <<>> /\ args.use_jump) =>
        LET names == exc.msg.names
        IN  IF authfail[1].hop = "target"
              THEN /\ "target" \in names /\ "jump" \notin names
                   /\ IF args.use_key
                        THEN "key" \in names /\ "password" \notin names
                        ELSE "password" \in names /\ "key" \notin names
              ELSE "jump" \in names /\ "target" \notin names

\* C17 witness: the target rejected a key login made through a jump that
\* had logged in with a password.
C17_Witness ==
    /\ apc = "a_raised" /\ authfail = <<[hop |-> "target", mode |-> "key"]>>
    /\ args.use_jump /\ args.use_key /\ ~args.jump_use_key
    /\ exc.msg.id = "target_key_auth_failed"

\* C18: when a connect() through a jump host raises after the jump session
\* was established, the jump SSH client and the jump channel are closed.
C18_JumpClosedOnFailure ==
    (upc = "idle" /\ prevOp = "connect_raised" /\ use_jump[gen])
        => (~ClientHeld(jumpSt[gen]) /\ jchSt[gen] # "open")

\* where the request starts in the client's bytes: after the two bytes of
\* the greeting and the methods it announces
RequestAt == 2 + stream[2]

\* events of the handler, by kind
FinalReplies == {i \in 1..Len(trace) : trace[i].ev = "send" /\ trace[i].data # MethodReply}
OpenAttempts == {i \in 1..Len(trace) : trace[i].ev \in {"open_ok", "open_failed"}}
RelayStarts  == {i \in 1..Len(trace) : trace[i].ev = "relay"}

\* the client's bytes are a greeting that asks for version 5 followed by a
\* request with at least its first n bytes
GreetingAndRequest(n) ==
    /\ Len(stream) >= 2 /\ stream[1] = 5
    /\ Len(stream) >= RequestAt + n

AddressLen ==
    CASE stream[RequestAt + 4] = 1 -> 4
      [] stream[RequestAt + 4] = 4 -> 16
      [] OTHER -> IF Len(stream) >= RequestAt + 5 THEN 1 + stream[RequestAt + 5] ELSE 1

\* the client's bytes are a greeting and one whole, well-formed CONNECT request
ValidConnect ==
    /\ GreetingAndRequest(4)
    /\ stream[RequestAt + 1] = 5 /\ stream[RequestAt + 2] = 1
    /\ stream[RequestAt + 4] \in {1, 3, 4}
    /\ Len(stream) = RequestAt + 4 + AddressLen + 2
    /\ \A i \in (RequestAt + 5)..(RequestAt + 4 + AddressLen) : stream[i] < 128

----------------------------------------------------------------------------
\* Transparency of an established SOCKS5 stream

IsPrefix(a, b) == Len(a) <= Len(b) /\ a = SubSeq(b, 1, Len(a))

\* the address and the port named by the request the client wrote
RequestedDest ==
    LET r == conn.request
        a == CASE r[4] = 1 -> SubSeq(r, 5, 8)
               [] r[4] = 3 -> SubSeq(r, 6, 5 + r[5])
               [] OTHER    -> SubSeq(r, 5, 20)
    IN  <<a, SubSeq(r, Len(r) - 1, Len(r))>>

\* the handler has sent the success reply
StreamEstablished == Len(replies) = 2 /\ replies[2] = Reply(0)

\* C21: a client that writes a legal greeting, a legal CONNECT request and
\* then its payload, delivered in any fragments, is never turned away before
\* the channel open is tried; the channel is opened to the address and port
\* it asked for; the remote end receives the payload bytes in order with
\* nothing inserted, and the client receives after the success reply the
\* bytes of the remote end in order with nothing inserted.
C21_StreamTransparent ==
    /\ spc = "s_done" =>
          (Len(replies) = 2 /\ replies[2] \in {Reply(0), Reply(5)})
    /\ spc \in {"s_open", "s_reply", "s_relay"} => dest = RequestedDest
    /\ StreamEstablished => dest = RequestedDest
    /\ IsPrefix(up, Payload)
    /\ IsPrefix(down, OriginBytes)

----------------------------------------------------------------------------
\* The HTTP proxy as its client and the upstream see it

\* the client's bytes after the header block of its request
HeadLen   == find(hreq, CRLF \o CRLF) + 4
AfterHead == From(hreq, HeadLen)

\* the handler is in _relay
InRelay == ppc \in {"p_relay", "p_select"}

\* how many times the proxy sent response r to the client
Sent(r) == Cardinality({i \in 1..Len(answers) : answers[i] = r})

\* the last _connect_via_socks5 call returned a socket
Dialled == dials # <<>> /\ dials[Len(dials)].ok

\* C22: for a CONNECT request the client is sent 200 Connection Established
\* at most once and only after the upstream dial succeeded, and the relay
\* runs only after it; the upstream receives the client's bytes after the
\* header block, in order, and no byte of the header block; while the relay
\* runs, every byte after the header block is either delivered upstream or
\* still to be read, including those that arrived with the header block; the
\* client is relayed the bytes of the origin, in order and nothing else.
C22_ConnectTransparent ==
    rkind = "connect" =>
        /\ Sent(Established) <= 1
        /\ Sent(Established) = 1 => Dialled
        /\ InRelay => Sent(Established) = 1
        /\ IsPrefix(toRemote, AfterHead)
        /\ InRelay => toRemote \o hwire = AfterHead
        /\ IsPrefix(toClient, OriginText)

\* the request line the client wrote, its words, and what follows the line
RequestLine  == Slice(hreq, 0, find(hreq, CRLF))
RequestWords == split(RequestLine)
AfterLine    == From(hreq, find(hreq, CRLF))

\* the client asks for http://authority[path] with a method other than CONNECT
AbsoluteRequest ==
    /\ Len(RequestWords) = 3
    /\ upper(RequestWords[1]) # CONNECT
    /\ StartsWith(RequestWords[2], Scheme)

\* the path of the URL u: what follows the authority, "/" when nothing does
UrlPath(u) ==
    LET paths == {p \in {From(u, i) : i \in 7..Len(u)} :
                    /\ p = <<>> \/ Head(p) = "/"
                    /\ ~In(<<"/">>, Slice(u, 7, Len(u) - Len(p)))}
        p == CHOOSE q \in paths : TRUE
    IN  IF p = <<>> THEN <<"/">> ELSE p

\* C23: for a request with an absolute http:// target, what is sent upstream
\* is the line METHOD path VERSION, where path is the URL from the first
\* "/" after the authority, or "/", followed by the bytes the client wrote
\* after its request line, unchanged and in order.
C23_AbsoluteRewrite ==
    AbsoluteRequest =>
        LET line == RequestWords[1] \o <<" ">> \o UrlPath(RequestWords[2])
                    \o <<" ">> \o RequestWords[3]
        IN  /\ IsPrefix(toRemote, line \o AfterLine)
            /\ InRelay => IsPrefix(line \o CRLF, toRemote)

\* the header lines of the request the client wrote
HeaderLines ==
    Tail(splitSep(Slice(hreq, 0, HeadLen - 4), CRLF, Len(hreq)))
HasHostHeader ==
    \E i \in 1..Len(HeaderLines) :
       StartsWith(lowerText(HeaderLines[i]), <<"h", "o", "s", "t", ":">>)

\* the authority a names no host
EmptyHost(a) == a = <<>> \/ Head(a) = ":"

\* the authority of the URL u: what stands between the scheme and the path
UrlAuthority(u) ==
    LET rest == From(u, 7)
    IN  IF UrlPath(u) = <<"/">> /\ (rest = <<>> \/ rest[Len(rest)] # "/")
          THEN rest ELSE Slice(rest, 0, Len(rest) - Len(UrlPath(u)))

\* the request the client wrote names no host
NoHostRequest ==
    /\ Len(RequestWords) = 3
    /\ IF upper(RequestWords[1]) = CONNECT THEN EmptyHost(RequestWords[2])
       ELSE IF StartsWith(RequestWords[2], Scheme)
         THEN EmptyHost(UrlAuthority(RequestWords[2]))
       ELSE ~HasHostHeader

DialFailed(d) ==
    \/ ~d.connected
    \/ d.method # <<5, 0>>
    \/ (Len(d.reply) >= 2 /\ d.reply[2] # 0)

\* C25: after an upstream dial that the SOCKS5 server refused the client is
\* answered 502 Bad Gateway and nothing else, no 200 is sent, no byte is sent
\* upstream or relayed to the client, no upstream socket is held, the handler
\* goes straight to its end without relaying, and the client is closed.
C25_DialFailureBadGateway ==
    \A i \in 1..Len(dials) : DialFailed(dials[i]) =>
        /\ Sent(Established) = 0
        /\ toRemote = <<>> /\ toClient = <<>> /\ remote = "none"
        /\ ppc \in {"p_answer", "p_finally", "p_done"}
        /\ answers = IF ppc = "p_answer" THEN <<>> ELSE <<BadGateway>>
        /\ ppc = "p_done" => hclient = "closed"

\* C25 witness: the server answered the request with reply code 5, the
\* client got 502 and its handler has ended.
C25_Witness ==
    /\ Len(dials) = 1 /\ dials[1].connected /\ dials[1].method = <<5, 0>>
    /\ dials[1].reply = Reply(5)
    /\ answers = <<BadGateway>> /\ ppc = "p_done" /\ hclient = "closed"

----------------------------------------------------------------------------
\* _parse_host_port as a function of its input

Colon == <<":">>
Bracketed(h) == <<"[">> \o h \o <<"]">>

\* the ways to read the input as host:port with the port after the last colon
HostPortReadings ==
    {hp \in {<<Slice(parse_in, 0, i), From(parse_in, i + 1)>> : i \in 0..Len(parse_in) - 1} :
        /\ hp[1] \o Colon \o hp[2] = parse_in
        /\ ~In(Colon, hp[2])}

\* the ways to read the input as [host] or [host]:port, host without "]"
BracketReadings ==
    {hp \in {<<Slice(parse_in, 1, i), From(parse_in, i + 1)>> : i \in 1..Len(parse_in) - 1} :
        /\ Bracketed(hp[1]) \o hp[2] = parse_in
        /\ ~In(<<"]">>, hp[1])
        /\ (hp[2] = <<>> \/ Head(hp[2]) = ":")}

\* C26 (as stated): once the call has returned, the result is: for [host]:port
\* with a port that parses, host without brackets and that port; for [host]
\* and for a bare host without colon, the host and default_port; for host:port
\* with a port that parses, host and port; and whenever the port component
\* does not parse as an integer, the host component and default_port.
C26_ParseHostPort ==
    parse_out # <<>> =>
        /\ \A hp \in BracketReadings :
              parse_out = IF hp[2] # <<>> /\ IsInt(Tail(hp[2]))
                            THEN <<hp[1], int(Tail(hp[2]))>>
                            ELSE <<hp[1], parse_default>>
        /\ (~In(Colon, parse_in) /\ ~StartsWith(parse_in, <<"[">>)) =>
              parse_out = <<parse_in, parse_default>>
        /\ ~StartsWith(parse_in, <<"[">>) =>
              \A hp \in HostPortReadings :
                 parse_out = IF IsInt(hp[2]) THEN <<hp[1], int(hp[2])>>
                                             ELSE <<hp[1], parse_default>>

----------------------------------------------------------------------------
\* The counters under concurrent handlers

\* how many handler threads are at one of the positions ps
CountAt(ps) == Cardinality({i \in Handlers : threads[i] \in ps})

\* accepted, client not yet closed / ever accepted
Accepted == Handlers \ {i \in Handlers : threads[i] = "t_none"}
OpenPositions ==
    {"t_start", "t_in1", "t_in2", "t_in3", "t_in4", "t_in5", "t_body"}
\* past the entry block, not yet past the exit block / past the entry block
CountedActive == {"t_body", "t_closed"}
CountedTotal  == {"t_body", "t_closed", "t_end"}

\* no handler thread is running
Quiet == \A i \in Handlers : threads[i] \in {"t_none", "t_end"}

\* C27 (as stated): at every moment active >= 0, active is the number of
\* handlers accepted and not yet closed, total is the number of handlers ever
\* accepted, total never decreases, and active = 0 when no handler runs.
C27_CountersTrackAccepts ==
    /\ [](/\ _active >= 0
          /\ _active = CountAt(OpenPositions)
          /\ _total = Cardinality(Accepted)
          /\ Quiet => _active = 0)
    /\ [][_total' >= _total]_vars

\* C27 (amended): under every interleaving active >= 0 and total never
\* decreases; whenever no handler is inside one of the two locked blocks
\* (the lock is free or held by get_stats()), active is the number of handlers
\* that have left their entry block and not yet their exit block, and total
\* the number that have left their entry block, so no update is lost; what
\* get_stats() returns is never more than the handlers accepted; and
\* active = 0 with total the number accepted when no handler runs.
C27_CountersExactOutsideBlocks ==
    /\ [](/\ _active >= 0
          /\ _lock \notin Handlers =>
                /\ _active = CountAt(CountedActive)
                /\ _total = CountAt(CountedTotal)
          /\ 0 <= seen.active /\ seen.active <= seen.total
          /\ seen.total <= Cardinality(Accepted)
          /\ Quiet => _active = 0 /\ _total = Cardinality(Accepted))
    /\ [][_total' >= _total]_vars

\* C27 witness: one handler has loaded a counter inside its locked block and
\* not stored it yet while another waits for the lock.
C27_Witness ==
    \E i, j \in Handlers :
       /\ i # j
       /\ threads[i] \in {"t_in2", "t_out2"} /\ _lock = i
       /\ threads[j] \in {"t_start", "t_closed"}

----------------------------------------------------------------------------
\* The statistics the manager reports

\* SshTunnelManager.get_stats(): the counters of the C engine when it is
\* available (c_stats), else a dict of zeros
SshTunnelManager_get_stats(available, c_stats) ==
    IF available THEN c_stats
    ELSE [bytes_up |-> 0, bytes_down |-> 0, active |-> 0, total |-> 0]

\* C28: without the C engine, once every accepted session of the HTTP proxy
\* has ended, the manager's get_stats() reports active = 0 and total = the
\* number of sessions accepted.
C28_ManagerStatsCountSessions ==
    Quiet =>
        LET stats == SshTunnelManager_get_stats(FALSE, get_stats)
        IN  stats.active = 0 /\ stats.total = Cardinality(Accepted)

----------------------------------------------------------------------------
\* The byte counters of one HTTP proxy session

\* the session went through the relay and its handler has ended
SessionOver == ppc = "p_done" /\ remote = "closed"

\* bytes of the client the proxy has received, and bytes of the origin the
\* relay has received
FromClient == Len(hreq) - Len(hwire)
FromOrigin == Len(OriginText) - Min(Len(horigin), Len(OriginText))

\* C29: when a session that was relayed ends, bytes_up has grown by the
\* number of bytes received from the client and bytes_down by the number of
\* bytes received from the origin.
C29_ByteCountsExact ==
    SessionOver => _bytes_up = FromClient /\ _bytes_down = FromOrigin

----------------------------------------------------------------------------
\* Failures of one proxied connection

\* what belongs to the tunnel and to the other connections, as opposed to
\* the HTTP proxy client that is followed: the manager with its fields,
\* SSH clients, listeners and status notifications, the SOCKS5 server and
\* its clients, and the other handler threads
Elsewhere == <<manager, argsv, socksv, streamv, statsv>>

\* the handler of the SOCKS5 client takes a step
SocksHandlerStep ==
    hpc # "none" /\ (hpc' # hpc \/ trace' # trace \/ inbuf' # inbuf)

\* a step of the SOCKS5 handler, failing or not, changes nothing of the
\* manager, of the server's flag, listening socket and transport, or of the
\* accept thread
SocksHandlerStaysLocal ==
    [][SocksHandlerStep =>
         UNCHANGED <<manager, argsv, extra, running, server_socket, transport,
                     _use_c_engine, accpc, dpc>>]_vars

\* the handler of the HTTP proxy client takes a step
ProxyHandlerStep == ppc' # ppc \/ httpio' # httpio \/ outputs' # outputs

\* C30: no exception escapes the handler thread of an HTTP proxy client,
\* whatever fails in it (a read that times out, a dial that is refused, a
\* send that fails, an IndexError while the request line is rewritten, an
\* error inside the relay), and no step of the handler changes anything of
\* the manager (is_connected, SSH clients, listeners, status notifications),
\* of the SOCKS5 server and its clients, of the other handler threads, or
\* the _running flag of the proxy.
C30_FailureStaysLocal ==
    /\ [](ppc # "p_escaped")
    /\ [][UNCHANGED Elsewhere /\ (ProxyHandlerStep => UNCHANGED _running)]_vars

\* C30 witness: the upstream was dialled, rewriting the request line raised
\* IndexError, and the handler has ended with the client closed.
C30_Witness ==
    /\ rkind = "http" /\ Dialled /\ RewriteRaises(initial_data)
    /\ toRemote = <<>> /\ ppc = "p_done" /\ hclient = "closed" /\ pexc = "none"

----------------------------------------------------------------------------
\* C31: while the SOCKS5 listener has not been stopped (its running flag is
\* set and its socket listens), its accept loop has not ended, whatever
\* accept() raised before: later clients are still accepted.
C31_AcceptLoopSurvivesErrors ==
    (running /\ server_socket = "listening") => accpc # "exit"

----------------------------------------------------------------------------
\* C32: once stop() has cleared _running while the relay of a client is in
\* progress, the relay eventually ends, whether or not either side sends or
\* closes, with the upstream socket and the client socket closed, the
\* handler ended and the active counter back at 0.
C32_StopEndsRelay ==
    (~_running /\ InRelay) ~>
        (ppc = "p_done" /\ remote = "closed" /\ hclient = "closed" /\ _active = 0)

\* C32 witness: stop() was called during a relay in which the client still
\* had bytes to send, and the handler has ended with both sockets closed.
C32_Witness ==
    /\ ~_running /\ hwire # <<>> /\ horigin # <<>>
    /\ ppc = "p_done" /\ remote = "closed" /\ hclient = "closed" /\ _active = 0

\* the relay of the handler has ended: _relay is at its finally block or
\* has returned
RelayEnded == ppc \in {"p_close", "p_finally", "p_done", "p_escaped"}

\* C33: a relay ends as soon as one direction finds its side at its end or
\* a call raises, no byte being copied in either direction after that; the
\* step that follows closes the upstream socket, which was open, the
\* handler then closes the client socket, which was open, and no socket of
\* the pair is closed a second time.
C33_RelayEndsAndClosesOnce ==
    [][/\ RelayEnded => UNCHANGED <<hwire, horigin, toRemote, toClient>>
       /\ ppc = "p_close" => (remote = "open" /\ remote' = "closed" /\ hclient' = "open")
       /\ (ppc = "p_finally" /\ remote = "closed")
            => (hclient = "open" /\ hclient' = "closed" /\ remote' = "closed")
       /\ remote' # "closed_again" /\ hclient' # "closed_again"]_vars

\* a relay that copied bytes both ways ended while the proxy was running,
\* and the handler has returned
C33_Witness ==
    /\ _running /\ ppc = "p_done" /\ remote = "closed" /\ hclient = "closed"
    /\ rkind = "connect" /\ toClient # <<>> /\ toRemote # <<>>

\* the request the client wrote is a plain-HTTP request with a relative
\* target and a Host header
RelativeWithHost ==
    /\ Len(RequestWords) = 3
    /\ upper(RequestWords[1]) # CONNECT
    /\ Head(RequestWords[2]) = "/"
    /\ HasHostHeader

\* C34: for a plain-HTTP request with a relative target and a well-formed
\* Host header, however its bytes are split across reads, the proxy never
\* answers 400 and every dial it makes is to the host and port named in the
\* Host header.
C34_HostHeaderAnySplit ==
    RelativeWithHost =>
        /\ Sent(BadRequest) = 0
        /\ \A i \in 1..Len(dials) :
              <<dials[i].host, dials[i].port>> = HostHeader(HeaderLines)

-----------------------------------------------------------------------------
\* The preface of one client of the HTTP proxy, counted in bytes: the client
\* writes without end, and each client.recv(4096) returns one full block of
\* ReadSize bytes.  initial_data holds one mark per block received: "x" for
\* a block with no line end, "l" for a block that ends a line, "b" for a
\* block that holds the blank line.

\* `len(data) < 65536` and `client.recv(4096)`
PrefaceCap == 65536
ReadSize   == 4096
\* the blocks the client writes before it stops
MaxPreface == 18

Bytes(d)    == Len(d) * ReadSize
HasLine(d)  == \E i \in 1..Len(d) : d[i] \in {"l", "b"}
HasBlank(d) == \E i \in 1..Len(d) : d[i] = "b"
\* what the client writes next: the request line may never end; after it,
\* one header without end or the blank line
NextBlocks(d) == IF HasLine(d) THEN {"x", "b"} ELSE {"x", "l", "b"}

\* accept() has returned the client and _handle_client has counted it
PrefaceInit ==
    /\ hreq = <<>> /\ hwire = <<>> /\ initial_data = <<>> /\ ppc = "p_line"
    /\ rkind = "none" /\ rhost = <<>> /\ rport = 0 /\ rpath = <<>>
    /\ remote = "none" /\ hclient = "open" /\ horigin = <<>>
    /\ dials = <<>> /\ answers = <<>> /\ toRemote = <<>> /\ toClient = <<>>
    /\ _running = TRUE
    /\ _bytes_up = 0 /\ _bytes_down = 0 /\ _active = 1 /\ _total = 1
    /\ pexc = "none"

\* chunk = client.recv(4096); if not chunk: return; data += chunk
\* (a block, b"" from a client that closed, or socket.timeout after 30 s)
RecvBlock(next) ==
    \/ /\ Len(initial_data) < MaxPreface
       /\ \E b \in NextBlocks(initial_data) : initial_data' = Append(initial_data, b)
       /\ ppc' = next
       /\ UNCHANGED pexc
    \/ /\ ppc' = "p_finally"
       /\ UNCHANGED <<initial_data, pexc>>
    \/ /\ ppc' = "p_except" /\ pexc' = "socket.timeout"
       /\ UNCHANGED initial_data

\* _handle_client: while b"\r\n" not in data and len(data) < 65536: ...
PrefaceLine ==
    /\ ppc = "p_line"
    /\ ~HasLine(initial_data) /\ Bytes(initial_data) < PrefaceCap
    /\ RecvBlock("p_line")
    /\ UNCHANGED <<manager, argsv, socksv, notHttp, hreq, hwire, locals, remote,
                   hclient, horigin, outputs, _running, counters>>

\* the loop has ended: parts = first_line.split(); if len(parts) < 3: return;
\* CONNECT goes to _handle_connect, any other method to _handle_http, which
\* reads no more of the preface
PrefaceDispatch ==
    /\ ppc = "p_line"
    /\ HasLine(initial_data) \/ Bytes(initial_data) >= PrefaceCap
    /\ \E kind \in {"short", "connect", "http"} :
         IF kind = "short"
           THEN ppc' = "p_finally" /\ UNCHANGED rkind
           ELSE /\ rkind' = kind
                /\ ppc' = IF kind = "connect" THEN "p_head" ELSE "p_dial"
    /\ UNCHANGED <<manager, argsv, socksv, notHttp, hreq, httpio, rhost, rport, rpath,
                   remote, hclient, horigin, outputs, _running, counters, pexc>>

\* _handle_connect: while b"\r\n\r\n" not in initial_data: ...
PrefaceHead ==
    /\ ppc = "p_head"
    /\ IF HasBlank(initial_data)
         THEN ppc' = "p_dial" /\ UNCHANGED <<initial_data, pexc>>
         ELSE RecvBlock("p_head")
    /\ UNCHANGED <<manager, argsv, socksv, notHttp, hreq, hwire, locals, remote,
                   hclient, horigin, outputs, _running, counters>>

NextPreface ==
    \/ PrefaceLine
    \/ PrefaceDispatch
    \/ PrefaceHead
    \/ ProxyExcept
    \/ ProxyFinally

PrefaceSpecInit ==
    ManagerInit /\ ArgsOff /\ SocksOff /\ StreamOff /\ PrefaceInit /\ ParseOff /\ StatsOff
PrefaceSpec == PrefaceSpecInit /\ [][NextPreface]_vars

\* C35: the preface the handler has buffered for its client is never longer
\* than the cap of 65536 bytes plus one read of 4096 bytes, whatever the
\* method and also when the blank line never comes.
C35_PrefaceBounded ==
    Bytes(initial_data) <= PrefaceCap + ReadSize

\* C36: when _connect_via_socks5 returns a socket, it has read the reply of
\* the SOCKS5 server to its last byte and no byte after it: what the socket
\* delivers to the relay from then on, together with what the relay has
\* passed to the client, is what the origin wrote and nothing else.
C36_ReplyConsumedExactly ==
    remote # "none" => toClient \o horigin = OriginText

\* C37: when the SOCKS5 handler has returned, the channel it opened, unless
\* it handed it to the C engine, is closed.
C37_RemoteClosedAtReturn ==
    (hpc = "h_done" /\ ~crelay) => chan \in {"none", "closed"}

\* C38: the monitor thread that the g-th connect() started inspects no
\* tunnel but the g-th: the SSH client whose transport it tests, and the
\* jump client whose transport it tests, are those of its own connect().
C38_MonitorOwnTunnel ==
    \A g \in Gens :
       (mpc[g] \in {"test", "jtest"} /\ mtransport[g] # None) => mtransport[g] = g

\* the tunnel now installed is up: connect() has set _connected, and the
\* transports of the clients the manager holds are active
TunnelUp ==
    /\ _connected /\ ssh_client # None /\ TargetActive(ssh_client)
    /\ jump_client # None => JumpActive(jump_client)
    /\ use_jump[ssh_client] => jump_client = ssh_client

\* C39: no monitor thread executes `self._connected = False` while the
\* tunnel now installed is up.
C39_NoDemotionOfLiveTunnel ==
    [][\A g \in Gens :
          (mpc[g] = "demote" /\ mpc'[g] = "notify") => ~TunnelUp]_vars

-----------------------------------------------------------------------------
\* connect() in one thread and disconnect() in another, on the same manager
\* (main.py starts each in a thread of its own, lines 682 and 703, and the
\* manager has no lock).  upc is the position of the connect() thread, dpc
\* that of the disconnect() thread: "off" before the call, "returned" after.
\* The monitor thread is in its time.sleep(10) all along.

\* the connect() calls made while the other thread disconnects
MaxRaceConnects == 1

\* what the disconnect() thread leaves alone besides the manager
raceRest == <<argsv, extra, running, server_socket, transport, _use_c_engine,
              accpc, hpc, stream, inbuf, client, chan, crelay, trace>>

\* the statement of disconnect() after pc
Following(pc) ==
    LET i == CHOOSE k \in 1..Len(TeardownOrder) : TeardownOrder[k] = pc
    IN  IF i < Len(TeardownOrder) THEN TeardownOrder[i + 1] ELSE "returned"

\* threading.Thread(target=self.tunnel.disconnect, daemon=True).start()
RaceCall ==
    /\ dpc = "off" /\ gen >= 1
    /\ dpc' = Head(TeardownOrder)
    /\ UNCHANGED <<manager, raceRest>>

\* self._connected = False
RaceFlag ==
    /\ dpc = "d_flag"
    /\ _connected' = FALSE
    /\ dpc' = Following("d_flag")
    /\ UNCHANGED <<raceRest, ssh_client, jump_client, _jump_channel, socks_server,
                   http_proxy, objs, user, mon, sinks, hist>>

\* if self.http_proxy: self.http_proxy.stop(); self.http_proxy = None
RaceHttp ==
    /\ dpc = "d_http"
    /\ IF http_proxy # None
         THEN /\ httpSt' = [httpSt EXCEPT ![http_proxy] = StopListener(@)]
              /\ http_proxy' = None
         ELSE UNCHANGED <<httpSt, http_proxy>>
    /\ dpc' = Following("d_http")
    /\ UNCHANGED <<raceRest, ssh_client, jump_client, _jump_channel, socks_server,
                   _connected, sshSt, jumpSt, jchSt, socksSt, user, mon, sinks, hist>>

\* if self.socks_server: self.socks_server.stop(); self.socks_server = None
RaceSocks ==
    /\ dpc = "d_socks"
    /\ IF socks_server # None
         THEN /\ socksSt' = [socksSt EXCEPT ![socks_server] = StopListener(@)]
              /\ socks_server' = None
         ELSE UNCHANGED <<socksSt, socks_server>>
    /\ dpc' = Following("d_socks")
    /\ UNCHANGED <<raceRest, ssh_client, jump_client, _jump_channel, http_proxy,
                   _connected, sshSt, jumpSt, jchSt, httpSt, user, mon, sinks, hist>>

\* if self.ssh_client: self.ssh_client.close(); self.ssh_client = None
RaceSsh ==
    /\ dpc = "d_ssh"
    /\ IF ssh_client # None
         THEN /\ sshSt' = [sshSt EXCEPT ![ssh_client] = CloseClient(@)]
              /\ ssh_client' = None
         ELSE UNCHANGED <<sshSt, ssh_client>>
    /\ dpc' = Following("d_ssh")
    /\ UNCHANGED <<raceRest, jump_client, _jump_channel, socks_server, http_proxy,
                   _connected, jumpSt, jchSt, socksSt, httpSt, user, mon, sinks, hist>>

\* if self._jump_channel: self._jump_channel.close(); self._jump_channel = None
RaceJumpChannel ==
    /\ dpc = "d_jch"
    /\ IF _jump_channel # None
         THEN /\ jchSt' = [jchSt EXCEPT ![_jump_channel] = CloseClient(@)]
              /\ _jump_channel' = None
         ELSE UNCHANGED <<jchSt, _jump_channel>>
    /\ dpc' = Following("d_jch")
    /\ UNCHANGED <<raceRest, ssh_client, jump_client, socks_server, http_proxy,
                   _connected, sshSt, jumpSt, socksSt, httpSt, user, mon, sinks, hist>>

\* if self.jump_client: self.jump_client.close(); self.jump_client = None
RaceJump ==
    /\ dpc = "d_jump"
    /\ IF jump_client # None
         THEN /\ jumpSt' = [jumpSt EXCEPT ![jump_client] = CloseClient(@)]
              /\ jump_client' = None
         ELSE UNCHANGED <<jumpSt, jump_client>>
    /\ dpc' = Following("d_jump")
    /\ UNCHANGED <<raceRest, ssh_client, _jump_channel, socks_server, http_proxy,
                   _connected, sshSt, jchSt, socksSt, httpSt, user, mon, sinks, hist>>

\* self._log("已断开连接"); self._notify_status("disconnected", "未连接");
\* disconnect() returns
RaceNotify ==
    /\ dpc = "d_notify"
    /\ _notify_status("disconnected", "disconnect")
    /\ dpc' = Following("d_notify")
    /\ UNCHANGED <<raceRest, fields, objs, user, mon, emitted, hist>>

\* threading.Thread(target=work, daemon=True).start(): work calls connect()
RaceConnectCall == ConnectCall /\ gen < MaxRaceConnects

\* a step of the connect() thread or of the disconnect() thread
NextRace ==
    \/ RaceConnectCall
    \/ Precheck
    \/ NotifyConnecting
    \/ DisconnectFlag
    \/ DisconnectNotify
    \/ JumpConnect
    \/ JumpTransportCheck
    \/ JumpOpenChannel
    \/ TargetConnect
    \/ SetSshClient
    \/ StartSocks
    \/ StartHttp
    \/ SetConnected
    \/ StartMonitor
    \/ ConnectExcept
    \/ RaceCall
    \/ RaceFlag
    \/ RaceHttp
    \/ RaceSocks
    \/ RaceSsh
    \/ RaceJumpChannel
    \/ RaceJump
    \/ RaceNotify

RaceSpec == Init /\ [][NextRace]_vars

\* connect() has returned normally and the disconnect() called meanwhile
\* from another thread has returned
BothReturned ==
    upc = "idle" /\ prevOp = "connect_ok" /\ dpc = "returned"

\* C40: once a connect() and a disconnect() that ran in different threads
\* have both returned, is_connected is true only if the manager holds its
\* SOCKS5 server, its HTTP proxy and its SSH client and both listeners are
\* bound, and false only if no listener is left bound.
C40_ConsistentAfterRace ==
    BothReturned =>
        /\ is_connected =>
              /\ socks_server # None /\ http_proxy # None /\ ssh_client # None
              /\ socksSt[socks_server] = "bound" /\ httpSt[http_proxy] = "bound"
        /\ ~is_connected =>
              \A g \in Gens : socksSt[g] # "bound" /\ httpSt[g] # "bound"

====
